---- MODULE Spec2Model ----
(***************************************************************************)
(* Toolchain reconciliation of openblock-registry: the diff between the    *)
(* desired state (latest upstream version of each configured package on    *)
(* every platform) and the published packages.json, and the sync run that  *)
(* applies it to the R2 blob store.                                        *)
(*                                                                         *)
(* JavaScript strings are sequences of one-character strings, so that      *)
(* template literals, split() and localeCompare() are computed.  A JS Map  *)
(* is a sequence of [key, val] entries in insertion order, a JS Set a      *)
(* duplicate-free sequence in insertion order.                             *)
(***************************************************************************)
EXTENDS Integers, Sequences, FiniteSets, TLC

VARIABLES
    manifest,        \* packages.json in R2: its packages.toolchains array
    blobs,           \* keys of the artifact objects held by the R2 bucket
    latestVersions,  \* Map id -> latest upstream version (fetchLatestVersions)
    blobs0,          \* the bucket's artifact keys when the run started
    pc,              \* position of the running script
    options,         \* sync(options): [dryRun, platform]
    toolchains,      \* the toolchains of the packages.json read at the start
    expected,        \* Map id@version -> Set of platforms
    current,         \* Map id@version -> Set of platforms
    toAdd,           \* planned additions, in order
    toDelete,        \* planned deletions, in order
    addIdx,          \* next item of toAdd to process
    delIdx,          \* next item of toDelete to process
    addedSystems,    \* Map "id@version#platform" -> system info
    addedItems,      \* report: items added
    skippedItems,    \* report: items skipped for missing tools
    failedCount,     \* report: number of failed items
    deletedItems,    \* report: items whose artifact was deleted
    result,          \* what sync returned, or that it threw
    log,             \* the run's calls to the outside, in order
    runs,            \* number of sync runs started
    packageIndex,    \* the merged upstream package index
    request,         \* arguments of a collectDownloadResources call on its own
    resources,       \* what that call returned
    packaged,        \* how packageToolchainDirect ended on these resources
    arduinoHost,     \* argument of a toOpenBlockPlatform call on its own
    classified,      \* what that call returned
    additional_urls, \* config.arduino.board_manager.additional_urls
    upstream,        \* what a fetch of each index URL yields
    discoveryUrls,   \* the URLs fetchLatestVersions passed to fetchAllPackageIndexes
    mergedPackages,  \* what fetchAllPackageIndexes returned
    indexUrls,       \* the URLs passed to mergePackageIndexes
    downloads,       \* the archives of the resources: expected checksum, served file
    dlIdx,           \* next archive to download
    downloadDir,     \* the archives in the download directory
    extracted,       \* the archives extracted into the packages directory
    artifacts        \* merge-packages: the packages.json of each artifact

vars == <<manifest, blobs, latestVersions, blobs0, pc, options, toolchains,
          expected, current,
          toAdd, toDelete, addIdx, delIdx, addedSystems, addedItems,
          skippedItems, failedCount, deletedItems, result, log, runs,
          packageIndex, request, resources, packaged, arduinoHost,
          classified, additional_urls, upstream, discoveryUrls, mergedPackages,
          indexUrls, downloads, dlIdx, downloadDir, extracted, artifacts>>

\* the state of the calls made on their own
callVars == <<request, resources, packaged, arduinoHost, classified>>

\* the configured index URLs, upstream, and the catalogs built from them
catalogVars == <<additional_urls, upstream, discoveryUrls, mergedPackages, indexUrls>>

\* the downloads of one packaging, and the artifacts of merge-packages
downloadVars == <<downloads, dlIdx, downloadDir, extracted, artifacts>>

-----------------------------------------------------------------------------
(* Bounds of the model *)

\* number of platforms of OPENBLOCK_PLATFORMS the model keeps (a prefix)
NumPlatforms == 2
\* sync runs per behaviour
MaxRuns == 1
\* entries of a Map given to calculateDiff on its own
MaxKeys == 2

-----------------------------------------------------------------------------
(* JavaScript values *)

UNDEFINED == <<"<undefined>">>
NULL == <<"<null>">>

Range(s) == {s[i] : i \in DOMAIN s}

RECURSIVE Concat(_)
Concat(ss) == IF ss = <<>> THEN <<>> ELSE Head(ss) \o Concat(Tail(ss))

\* String.prototype.split on a one-character separator
RECURSIVE split(_, _)
split(s, sep) ==
    IF \E i \in DOMAIN s : s[i] = sep
    THEN LET i == CHOOSE k \in DOMAIN s :
                      s[k] = sep /\ \A j \in 1..(k - 1) : s[j] # sep
         IN  <<SubSeq(s, 1, i - 1)>> \o split(SubSeq(s, i + 1, Len(s)), sep)
    ELSE <<s>>

\* array destructuring: a missing element is undefined
At(a, i) == IF i \in DOMAIN a THEN a[i] ELSE UNDEFINED

\* Map.prototype.has / get / set
MapHas(m, k) == \E i \in DOMAIN m : m[i].key = k
MapGet(m, k) ==
    m[CHOOSE i \in DOMAIN m : m[i].key = k].val
MapSet(m, k, v) ==
    IF MapHas(m, k)
    THEN [i \in DOMAIN m |-> IF m[i].key = k THEN [key |-> k, val |-> v] ELSE m[i]]
    ELSE Append(m, [key |-> k, val |-> v])

\* Set.prototype.has / add, new Set(iterable)
SetHas(s, x) == \E i \in DOMAIN s : s[i] = x
SetAdd(s, x) == IF SetHas(s, x) THEN s ELSE Append(s, x)
RECURSIVE NewSet(_)
NewSet(a) ==
    IF a = <<>> THEN <<>>
    ELSE SetAdd(NewSet(SubSeq(a, 1, Len(a) - 1)), a[Len(a)])

\* the characters the model uses, in collation order (punctuation, digits,
\* letters)
Alphabet == <<"-", ".", "0", "1", "2", "3", "4", "6", "9",
              "a", "d", "i", "l", "m", "n", "r", "u", "w", "x", "y">>
CharRank(c) == CHOOSE i \in DOMAIN Alphabet : Alphabet[i] = c

\* String.prototype.localeCompare: -1, 0 or 1
RECURSIVE localeCompare(_, _)
localeCompare(a, b) ==
    IF a = <<>> /\ b = <<>> THEN 0
    ELSE IF a = <<>> THEN -1
    ELSE IF b = <<>> THEN 1
    ELSE IF CharRank(Head(a)) < CharRank(Head(b)) THEN -1
    ELSE IF CharRank(Head(a)) > CharRank(Head(b)) THEN 1
    ELSE localeCompare(Tail(a), Tail(b))

-----------------------------------------------------------------------------
(* platform-mapper.js *)

win32_x64    == <<"w", "i", "n", "3", "2", "-", "x", "6", "4">>
darwin_x64   == <<"d", "a", "r", "w", "i", "n", "-", "x", "6", "4">>
darwin_arm64 == <<"d", "a", "r", "w", "i", "n", "-", "a", "r", "m", "6", "4">>
linux_x64    == <<"l", "i", "n", "u", "x", "-", "x", "6", "4">>
linux_arm64  == <<"l", "i", "n", "u", "x", "-", "a", "r", "m", "6", "4">>
linux_arm    == <<"l", "i", "n", "u", "x", "-", "a", "r", "m">>

win32_ia32   == <<"w", "i", "n", "3", "2", "-", "i", "a", "3", "2">>

\* String.prototype.toLowerCase
UpperCase == <<"A", "B", "C", "D", "E", "F", "G", "H", "I", "J", "K", "L", "M", "N", "O", "P", "Q", "R", "S", "T", "U", "V", "W", "X", "Y", "Z">>
LowerCase == <<"a", "b", "c", "d", "e", "f", "g", "h", "i", "j", "k", "l", "m", "n", "o", "p", "q", "r", "s", "t", "u", "v", "w", "x", "y", "z">>
LowerOf ==
    [c \in Range(UpperCase) |-> LowerCase[CHOOSE i \in DOMAIN UpperCase : UpperCase[i] = c]]
toLowerCaseChar(c) == IF c \in DOMAIN LowerOf THEN LowerOf[c] ELSE c
toLowerCase(s) == [i \in DOMAIN s |-> toLowerCaseChar(s[i])]

\* String.prototype.includes
includes(s, kw) ==
    \/ kw = <<>>
    \/ \E i \in 0..(Len(s) - Len(kw)) :
           s[i + 1] = kw[1] /\ SubSeq(s, i + 1, i + Len(kw)) = kw

\* Array.prototype.some(kw => hostLower.includes(kw.toLowerCase()))
someIncluded(keywords, hostLower) ==
    \E i \in DOMAIN keywords : includes(hostLower, toLowerCase(keywords[i]))

\* the darwin-x64 rule is listed before the darwin-arm64 rule
PLATFORM_MATCHERS_IntelFirst == <<
    [platform        |-> win32_x64,
     archKeywords    |-> <<<<"x", "8", "6", "_", "6", "4">>,
                          <<"x", "6", "4">>,
                          <<"a", "m", "d", "6", "4">>>>,
     excludeKeywords |-> <<>>,
     osKeywords      |-> <<<<"m", "i", "n", "g", "w">>,
                          <<"w", "i", "n", "d", "o", "w", "s">>,
                          <<"w", "i", "n", "3", "2">>,
                          <<"w", "i", "n", "6", "4">>>>],
    [platform        |-> win32_ia32,
     archKeywords    |-> <<<<"i", "6", "8", "6">>,
                          <<"i", "3", "8", "6">>,
                          <<"x", "8", "6">>,
                          <<"i", "a", "3", "2">>>>,
     excludeKeywords |-> <<<<"x", "8", "6", "_", "6", "4">>>>,
     osKeywords      |-> <<<<"m", "i", "n", "g", "w">>,
                          <<"w", "i", "n", "d", "o", "w", "s">>,
                          <<"w", "i", "n", "3", "2">>>>],
    [platform        |-> darwin_x64,
     archKeywords    |-> <<<<"x", "8", "6", "_", "6", "4">>,
                          <<"x", "6", "4">>,
                          <<"a", "m", "d", "6", "4">>,
                          <<"i", "3", "8", "6">>>>,
     excludeKeywords |-> <<>>,
     osKeywords      |-> <<<<"d", "a", "r", "w", "i", "n">>,
                          <<"a", "p", "p", "l", "e">>,
                          <<"m", "a", "c", "o", "s">>,
                          <<"o", "s", "x">>>>],
    [platform        |-> darwin_arm64,
     archKeywords    |-> <<<<"a", "r", "m", "6", "4">>,
                          <<"a", "a", "r", "c", "h", "6", "4">>>>,
     excludeKeywords |-> <<>>,
     osKeywords      |-> <<<<"d", "a", "r", "w", "i", "n">>,
                          <<"a", "p", "p", "l", "e">>,
                          <<"m", "a", "c", "o", "s">>,
                          <<"o", "s", "x">>>>],
    [platform        |-> linux_arm64,
     archKeywords    |-> <<<<"a", "r", "m", "6", "4">>,
                          <<"a", "a", "r", "c", "h", "6", "4">>>>,
     excludeKeywords |-> <<>>,
     osKeywords      |-> <<<<"l", "i", "n", "u", "x">>>>],
    [platform        |-> linux_arm,
     archKeywords    |-> <<<<"a", "r", "m">>,
                          <<"a", "r", "m", "v", "6">>,
                          <<"a", "r", "m", "v", "7">>,
                          <<"a", "r", "m", "h", "f">>,
                          <<"g", "n", "u", "e", "a", "b", "i", "h", "f">>>>,
     excludeKeywords |-> <<<<"a", "r", "m", "6", "4">>,
                          <<"a", "a", "r", "c", "h", "6", "4">>>>,
     osKeywords      |-> <<<<"l", "i", "n", "u", "x">>>>],
    [platform        |-> linux_x64,
     archKeywords    |-> <<<<"x", "8", "6", "_", "6", "4">>,
                          <<"x", "6", "4">>,
                          <<"a", "m", "d", "6", "4">>>>,
     excludeKeywords |-> <<>>,
     osKeywords      |-> <<<<"l", "i", "n", "u", "x">>>>]
    >>

\* the linux-arm rule is listed before the linux-arm64 rule and has no
\* excludeKeywords
PLATFORM_MATCHERS_ArmFirst == <<
    [platform        |-> win32_x64,
     archKeywords    |-> <<<<"x", "8", "6", "_", "6", "4">>,
                          <<"x", "6", "4">>,
                          <<"a", "m", "d", "6", "4">>>>,
     excludeKeywords |-> <<>>,
     osKeywords      |-> <<<<"m", "i", "n", "g", "w">>,
                          <<"w", "i", "n", "d", "o", "w", "s">>,
                          <<"w", "i", "n", "3", "2">>,
                          <<"w", "i", "n", "6", "4">>>>],
    [platform        |-> win32_ia32,
     archKeywords    |-> <<<<"i", "6", "8", "6">>,
                          <<"i", "3", "8", "6">>,
                          <<"x", "8", "6">>,
                          <<"i", "a", "3", "2">>>>,
     excludeKeywords |-> <<<<"x", "8", "6", "_", "6", "4">>>>,
     osKeywords      |-> <<<<"m", "i", "n", "g", "w">>,
                          <<"w", "i", "n", "d", "o", "w", "s">>,
                          <<"w", "i", "n", "3", "2">>>>],
    [platform        |-> darwin_arm64,
     archKeywords    |-> <<<<"a", "r", "m", "6", "4">>,
                          <<"a", "a", "r", "c", "h", "6", "4">>>>,
     excludeKeywords |-> <<>>,
     osKeywords      |-> <<<<"d", "a", "r", "w", "i", "n">>,
                          <<"a", "p", "p", "l", "e">>,
                          <<"m", "a", "c", "o", "s">>,
                          <<"o", "s", "x">>>>],
    [platform        |-> darwin_x64,
     archKeywords    |-> <<<<"x", "8", "6", "_", "6", "4">>,
                          <<"x", "6", "4">>,
                          <<"a", "m", "d", "6", "4">>,
                          <<"i", "3", "8", "6">>>>,
     excludeKeywords |-> <<>>,
     osKeywords      |-> <<<<"d", "a", "r", "w", "i", "n">>,
                          <<"a", "p", "p", "l", "e">>,
                          <<"m", "a", "c", "o", "s">>,
                          <<"o", "s", "x">>>>],
    [platform        |-> linux_arm,
     archKeywords    |-> <<<<"a", "r", "m">>,
                          <<"a", "r", "m", "v", "6">>,
                          <<"a", "r", "m", "v", "7">>,
                          <<"a", "r", "m", "h", "f">>,
                          <<"g", "n", "u", "e", "a", "b", "i", "h", "f">>>>,
     excludeKeywords |-> <<>>,
     osKeywords      |-> <<<<"l", "i", "n", "u", "x">>>>],
    [platform        |-> linux_arm64,
     archKeywords    |-> <<<<"a", "r", "m", "6", "4">>,
                          <<"a", "a", "r", "c", "h", "6", "4">>>>,
     excludeKeywords |-> <<>>,
     osKeywords      |-> <<<<"l", "i", "n", "u", "x">>>>],
    [platform        |-> linux_x64,
     archKeywords    |-> <<<<"x", "8", "6", "_", "6", "4">>,
                          <<"x", "6", "4">>,
                          <<"a", "m", "d", "6", "4">>>>,
     excludeKeywords |-> <<>>,
     osKeywords      |-> <<<<"l", "i", "n", "u", "x">>>>]
    >>

\* PLATFORM_MATCHERS, in list order; a rule without excludeKeywords has none
PLATFORM_MATCHERS == <<
    [platform        |-> win32_x64,
     archKeywords    |-> <<<<"x", "8", "6", "_", "6", "4">>,
                          <<"x", "6", "4">>,
                          <<"a", "m", "d", "6", "4">>>>,
     excludeKeywords |-> <<>>,
     osKeywords      |-> <<<<"m", "i", "n", "g", "w">>,
                          <<"w", "i", "n", "d", "o", "w", "s">>,
                          <<"w", "i", "n", "3", "2">>,
                          <<"w", "i", "n", "6", "4">>>>],
    [platform        |-> win32_ia32,
     archKeywords    |-> <<<<"i", "6", "8", "6">>,
                          <<"i", "3", "8", "6">>,
                          <<"x", "8", "6">>,
                          <<"i", "a", "3", "2">>>>,
     excludeKeywords |-> <<<<"x", "8", "6", "_", "6", "4">>>>,
     osKeywords      |-> <<<<"m", "i", "n", "g", "w">>,
                          <<"w", "i", "n", "d", "o", "w", "s">>,
                          <<"w", "i", "n", "3", "2">>>>],
    [platform        |-> darwin_arm64,
     archKeywords    |-> <<<<"a", "r", "m", "6", "4">>,
                          <<"a", "a", "r", "c", "h", "6", "4">>>>,
     excludeKeywords |-> <<>>,
     osKeywords      |-> <<<<"d", "a", "r", "w", "i", "n">>,
                          <<"a", "p", "p", "l", "e">>,
                          <<"m", "a", "c", "o", "s">>,
                          <<"o", "s", "x">>>>],
    [platform        |-> darwin_x64,
     archKeywords    |-> <<<<"x", "8", "6", "_", "6", "4">>,
                          <<"x", "6", "4">>,
                          <<"a", "m", "d", "6", "4">>,
                          <<"i", "3", "8", "6">>>>,
     excludeKeywords |-> <<>>,
     osKeywords      |-> <<<<"d", "a", "r", "w", "i", "n">>,
                          <<"a", "p", "p", "l", "e">>,
                          <<"m", "a", "c", "o", "s">>,
                          <<"o", "s", "x">>>>],
    [platform        |-> linux_arm64,
     archKeywords    |-> <<<<"a", "r", "m", "6", "4">>,
                          <<"a", "a", "r", "c", "h", "6", "4">>>>,
     excludeKeywords |-> <<>>,
     osKeywords      |-> <<<<"l", "i", "n", "u", "x">>>>],
    [platform        |-> linux_arm,
     archKeywords    |-> <<<<"a", "r", "m">>,
                          <<"a", "r", "m", "v", "6">>,
                          <<"a", "r", "m", "v", "7">>,
                          <<"a", "r", "m", "h", "f">>,
                          <<"g", "n", "u", "e", "a", "b", "i", "h", "f">>>>,
     excludeKeywords |-> <<<<"a", "r", "m", "6", "4">>,
                          <<"a", "a", "r", "c", "h", "6", "4">>>>,
     osKeywords      |-> <<<<"l", "i", "n", "u", "x">>>>],
    [platform        |-> linux_x64,
     archKeywords    |-> <<<<"x", "8", "6", "_", "6", "4">>,
                          <<"x", "6", "4">>,
                          <<"a", "m", "d", "6", "4">>>>,
     excludeKeywords |-> <<>>,
     osKeywords      |-> <<<<"l", "i", "n", "u", "x">>>>]
    >>

\* hasArch && hasOs && !hasExclude
matches(matcher, hostLower) ==
    /\ someIncluded(matcher.archKeywords, hostLower)
    /\ someIncluded(matcher.osKeywords, hostLower)
    /\ ~someIncluded(matcher.excludeKeywords, hostLower)

\* the loop goes on after a match: the last matching rule wins
RECURSIVE matchFrom_Last(_, _)
matchFrom_Last(host, i) ==
    IF i > Len(PLATFORM_MATCHERS) THEN NULL
    ELSE LET rest == matchFrom_Last(host, i + 1)
         IN  IF rest # NULL THEN rest
             ELSE IF matches(PLATFORM_MATCHERS[i], toLowerCase(host))
             THEN PLATFORM_MATCHERS[i].platform
             ELSE NULL

\* the loop of toOpenBlockPlatform from rule i on
RECURSIVE matchFrom(_, _)
matchFrom(host, i) ==
    IF i > Len(PLATFORM_MATCHERS) THEN NULL
    ELSE IF matches(PLATFORM_MATCHERS[i], toLowerCase(host))
    THEN PLATFORM_MATCHERS[i].platform
    ELSE matchFrom(host, i + 1)

\* a host that no rule matches is its own platform
toOpenBlockPlatform_Inferred(host) ==
    IF host \in {NULL, UNDEFINED, <<>>} THEN NULL
    ELSE IF matchFrom(host, 1) = NULL THEN toLowerCase(host)
    ELSE matchFrom(host, 1)

\* toOpenBlockPlatform(arduinoHost): `!arduinoHost` holds for null, undefined
\* and the empty string
toOpenBlockPlatform(host) ==
    IF host = NULL \/ host = UNDEFINED \/ host = <<>> THEN NULL
    ELSE matchFrom(host, 1)

\* PLATFORM_FALLBACKS / getFallbackPlatform
getFallbackPlatform(platform) ==
    IF platform = darwin_arm64 THEN darwin_x64
    ELSE IF platform = win32_x64 THEN win32_ia32
    ELSE NULL

ALL_PLATFORMS ==
    <<win32_x64, darwin_x64, darwin_arm64, linux_x64, linux_arm64, linux_arm>>

OPENBLOCK_PLATFORMS ==
    SubSeq(ALL_PLATFORMS, 1,
           IF NumPlatforms < Len(ALL_PLATFORMS) THEN NumPlatforms
           ELSE Len(ALL_PLATFORMS))

-----------------------------------------------------------------------------
(* calculate-diff.js *)

\* `${id}@${version}`
StateKey(id, version) == id \o <<"@">> \o version

\* buildCurrentState(toolchains)
RECURSIVE buildCurrentState(_)
buildCurrentState(list) ==
    IF list = <<>> THEN <<>>
    ELSE LET n         == Len(list)
             toolchain == list[n]
             key       == StateKey(toolchain.id, toolchain.version)
             platforms ==
                 NewSet([i \in DOMAIN toolchain.systems |-> toolchain.systems[i].host])
         IN  MapSet(buildCurrentState(SubSeq(list, 1, n - 1)), key, platforms)

\* buildExpectedState(config, latestVersions)
RECURSIVE buildExpectedStateOf(_, _)
buildExpectedStateOf(packages, latest) ==
    IF packages = <<>> THEN <<>>
    ELSE LET n       == Len(packages)
             pkg     == packages[n]
             version == IF MapHas(latest, pkg.id)
                        THEN MapGet(latest, pkg.id) ELSE UNDEFINED
             rest    == buildExpectedStateOf(SubSeq(packages, 1, n - 1), latest)
         IN  IF version # UNDEFINED /\ version # <<>>
             THEN MapSet(rest, StateKey(pkg.id, version), NewSet(OPENBLOCK_PLATFORMS))
             ELSE rest

\* mutant: the expected set holds the first platform only
buildExpectedState_FirstPlatform(config, latest) ==
    LET exp == buildExpectedStateOf(config.packages, latest)
    IN  [i \in DOMAIN exp |-> [exp[i] EXCEPT !.val = SubSeq(@, 1, 1)]]
buildExpectedState(config, latest) == buildExpectedStateOf(config.packages, latest)

\* the ids of the expected keys (expectedIds)
ExpectedIds(exp) == NewSet([i \in DOMAIN exp |-> At(split(exp[i].key, "@"), 1)])

\* mutant: the add loop forgets to look at the current platforms
ItemsToAdd_IgnoreCurrent(entry, cur) ==
    LET parts   == split(entry.key, "@")
        id      == At(parts, 1)
        version == At(parts, 2)
    IN  [i \in DOMAIN entry.val |->
            [id |-> id, version |-> version, platform |-> entry.val[i]]]

\* one pass of the first loop: the platforms of one expected key to add
ItemsToAdd(entry, cur) ==
    LET parts            == split(entry.key, "@")
        id               == At(parts, 1)
        version          == At(parts, 2)
        currentPlatforms == IF MapHas(cur, entry.key)
                            THEN MapGet(cur, entry.key) ELSE <<>>
        missing          == SelectSeq(entry.val, LAMBDA p : ~SetHas(currentPlatforms, p))
    IN  [i \in DOMAIN missing |-> [id |-> id, version |-> version, platform |-> missing[i]]]

\* mutant: the delete loop without the expectedIds guard
ItemsToDelete_Unmanaged(entry, exp) ==
    LET parts   == split(entry.key, "@")
        id      == At(parts, 1)
        version == At(parts, 2)
    IN  IF MapHas(exp, entry.key) THEN <<>>
        ELSE [i \in DOMAIN entry.val |->
                 [id |-> id, version |-> version, platform |-> entry.val[i]]]

\* mutant: the delete loop also retires the platforms of a still-expected
\* key that the expected set does not hold
ItemsToDelete_Partial(entry, exp) ==
    LET parts   == split(entry.key, "@")
        id      == At(parts, 1)
        version == At(parts, 2)
        stale   == IF MapHas(exp, entry.key)
                   THEN SelectSeq(entry.val, LAMBDA p : ~SetHas(MapGet(exp, entry.key), p))
                   ELSE entry.val
    IN  IF ~SetHas(ExpectedIds(exp), id) THEN <<>>
        ELSE [i \in DOMAIN stale |->
                 [id |-> id, version |-> version, platform |-> stale[i]]]

\* one pass of the second loop: the platforms of one current key to delete
ItemsToDelete(entry, exp) ==
    LET parts   == split(entry.key, "@")
        id      == At(parts, 1)
        version == At(parts, 2)
    IN  IF ~SetHas(ExpectedIds(exp), id) THEN <<>>
        ELSE IF MapHas(exp, entry.key) THEN <<>>
        ELSE [i \in DOMAIN entry.val |->
                 [id |-> id, version |-> version, platform |-> entry.val[i]]]

calculateDiff(exp, cur) ==
    [toAdd    |-> Concat([i \in DOMAIN exp |-> ItemsToAdd(exp[i], cur)]),
     toDelete |-> Concat([i \in DOMAIN cur |-> ItemsToDelete(cur[i], exp)])]

\* ids of toolchains and versions of cores
IdX == <<"x">>
IdY == <<"y">>
V1 == <<"1", ".", "0", ".", "0">>
V2 == <<"2", ".", "0", ".", "0">>

-----------------------------------------------------------------------------
(* arduino/index-parser.js and arduino/packager.js: resolution *)

\* a value that may be null: <<>> is null, <<x>> is the object x
Some(x) == <<x>>
None == <<>>

\* core.split(':')
parseCore(core) ==
    [packager |-> At(split(core, ":"), 1), architecture |-> At(split(core, ":"), 2)]

\* packageIndex.packages.find(p => p.name.toLowerCase() === packager.toLowerCase())
findPackage(index, packager) ==
    LET hit(i) == toLowerCase(index.packages[i].name) = toLowerCase(packager)
    IN  IF \E i \in DOMAIN index.packages : hit(i)
        THEN Some(index.packages[CHOOSE i \in DOMAIN index.packages :
                                     hit(i) /\ \A j \in 1..(i - 1) : ~hit(j)])
        ELSE None

\* the version is not compared
findPlatform_AnyVersion(index, packager, architecture, version) ==
    LET pkg == findPackage(index, packager)
    IN  IF pkg = None THEN None
        ELSE LET ps     == pkg[1].platforms
                 hit(i) == toLowerCase(ps[i].architecture) = toLowerCase(architecture)
             IN  IF \E i \in DOMAIN ps : hit(i)
                 THEN Some(ps[CHOOSE i \in DOMAIN ps : hit(i) /\ \A j \in 1..(i - 1) : ~hit(j)])
                 ELSE None

\* findPlatform: the first platform of the first package of that packager
\* whose architecture (lower-cased) and version match
findPlatform(index, packager, architecture, version) ==
    LET pkg == findPackage(index, packager)
    IN  IF pkg = None THEN None
        ELSE LET ps     == pkg[1].platforms
                 hit(i) == /\ toLowerCase(ps[i].architecture) = toLowerCase(architecture)
                           /\ ps[i].version = version
             IN  IF \E i \in DOMAIN ps : hit(i)
                 THEN Some(ps[CHOOSE i \in DOMAIN ps : hit(i) /\ \A j \in 1..(i - 1) : ~hit(j)])
                 ELSE None

getToolDependencies(platform) == platform.toolsDependencies

\* findTool: name and version are compared as they are written
findTool(index, packager, toolName, version) ==
    LET pkg == findPackage(index, packager)
    IN  IF pkg = None THEN None
        ELSE LET ts     == pkg[1].tools
                 hit(i) == ts[i].name = toolName /\ ts[i].version = version
             IN  IF \E i \in DOMAIN ts : hit(i)
                 THEN Some(ts[CHOOSE i \in DOMAIN ts : hit(i) /\ \A j \in 1..(i - 1) : ~hit(j)])
                 ELSE None

\* the host is compared with the target platform as it is written
getToolSystemForPlatform_RawHost(tool, targetPlatform) ==
    LET hit(i) == tool.systems[i].host = targetPlatform
    IN  IF \E i \in DOMAIN tool.systems : hit(i)
        THEN Some(tool.systems[CHOOSE i \in DOMAIN tool.systems :
                                   hit(i) /\ \A j \in 1..(i - 1) : ~hit(j)])
        ELSE None

\* mutant: a later system for the target platform replaces an earlier one
getToolSystemForPlatform_Last(tool, targetPlatform) ==
    LET hit(i) == toOpenBlockPlatform(tool.systems[i].host) = targetPlatform
    IN  IF \E i \in DOMAIN tool.systems : hit(i)
        THEN Some(tool.systems[CHOOSE i \in DOMAIN tool.systems :
                                   hit(i) /\ \A j \in (i + 1)..Len(tool.systems) : ~hit(j)])
        ELSE None
\* getToolSystemForPlatform: the first system whose host classifies to the
\* target platform
getToolSystemForPlatform(tool, targetPlatform) ==
    LET hit(i) == toOpenBlockPlatform(tool.systems[i].host) = targetPlatform
    IN  IF \E i \in DOMAIN tool.systems : hit(i)
        THEN Some(tool.systems[CHOOSE i \in DOMAIN tool.systems :
                                   hit(i) /\ \A j \in 1..(i - 1) : ~hit(j)])
        ELSE None

ToolKey(dep) == [packager |-> dep.packager, name |-> dep.name, version |-> dep.version]

\* the loop of collectDownloadResources over the tool dependencies
RECURSIVE collectTools(_, _, _, _)
collectTools(index, deps, targetPlatform, res) ==
    IF deps = <<>> THEN res
    ELSE LET dep    == Head(deps)
             tool   == findTool(index, dep.packager, dep.name, dep.version)
             system == IF tool = None THEN None
                       ELSE getToolSystemForPlatform(tool[1], targetPlatform)
             next   ==
                 IF tool = None
                 THEN [res EXCEPT !.errors =
                          Append(@, [error |-> "Tool not found"] @@ ToolKey(dep))]
                 ELSE IF system = None
                 THEN [res EXCEPT !.missingTools = Append(@, ToolKey(dep))]
                 ELSE [res EXCEPT !.tools =
                          Append(@, ToolKey(dep) @@ [url |-> system[1].url])]
         IN  collectTools(index, Tail(deps), targetPlatform, next)

\* collectDownloadResources(packageIndex, packager, architecture, version,
\* targetPlatform)
collectDownloadResources(index, packager, architecture, version, targetPlatform) ==
    LET platform == findPlatform(index, packager, architecture, version)
        empty    == [platform |-> None, tools |-> <<>>, missingTools |-> <<>>,
                     errors |-> <<>>]
    IN  IF platform = None
        THEN [empty EXCEPT !.errors =
                 <<[error |-> "Platform not found", packager |-> packager,
                    name |-> architecture, version |-> version]>>]
        ELSE collectTools(index, getToolDependencies(platform[1]), targetPlatform,
                          [empty EXCEPT !.platform =
                              Some([packager |-> packager, architecture |-> architecture,
                                    version |-> version, url |-> platform[1].url])])

\* the check for missing tools comes before the check for errors
packageToolchainDirect_MissingFirst(res, ioOk) ==
    IF res.missingTools # <<>> THEN [threw |-> "MissingToolsError", downloaded |-> FALSE]
    ELSE IF res.errors # <<>> \/ res.platform = None
    THEN [threw |-> "Error", downloaded |-> FALSE]
    ELSE [threw |-> IF ioOk THEN "none" ELSE "Error", downloaded |-> TRUE]

\* packageToolchainDirect after collectDownloadResources: what it throws and
\* whether it got to download anything; ioOk is whether every download,
\* checksum and extraction (in a sync run: the zip and the upload after
\* them as well) went through
packageToolchainDirect(res, ioOk) ==
    IF res.errors # <<>> THEN [threw |-> "Error", downloaded |-> FALSE]
    ELSE IF res.platform = None THEN [threw |-> "Error", downloaded |-> FALSE]
    ELSE IF res.missingTools # <<>>
    THEN [threw |-> "MissingToolsError", downloaded |-> FALSE]
    ELSE [threw |-> IF ioOk THEN "none" ELSE "Error", downloaded |-> TRUE]

\* mergePackageIndexes when no index could be fetched
EmptyIndex == [packages |-> <<>>]

NoRequest ==
    [packager |-> <<>>, architecture |-> <<>>, version |-> <<>>, targetPlatform |-> <<>>]
NoResources == [platform |-> None, tools |-> <<>>, missingTools |-> <<>>, errors |-> <<>>]

NotPackaged == [threw |-> "not called", downloaded |-> FALSE]

\* no call on its own was made
NoCall ==
    /\ request = NoRequest
    /\ resources = NoResources
    /\ packaged = NotPackaged
    /\ arduinoHost = NULL
    /\ classified = NULL

\* no catalog was built on its own
NoCatalog ==
    /\ additional_urls = <<>>
    /\ upstream = <<>>
    /\ discoveryUrls = <<>>
    /\ mergedPackages = EmptyIndex
    /\ indexUrls = <<>>

\* no download was made on its own, and there are no artifacts to merge
NoDownload ==
    /\ downloads = <<>>
    /\ dlIdx = 1
    /\ downloadDir = {}
    /\ extracted = {}
    /\ artifacts = <<>>

\* names of the package index
arduino    == <<"a", "r", "d", "u", "i", "n", "o">>
ArduinoCap == <<"A", "r", "d", "u", "i", "n", "o">>
esp32      == <<"e", "s", "p", "3", "2">>
avr        == <<"a", "v", "r">>
AVRCap     == <<"A", "V", "R">>
avr_gcc    == <<"a", "v", "r", "-", "g", "c", "c">>
avrdude    == <<"a", "v", "r", "d", "u", "d", "e">>
ToolNames  == <<avr_gcc, avrdude>>

\* hosts of the systems of a tool
x86_64_mingw32      == <<"x", "8", "6", "_", "6", "4", "-", "m", "i", "n", "g", "w", "3", "2">>
i686_mingw32        == <<"i", "6", "8", "6", "-", "m", "i", "n", "g", "w", "3", "2">>
x86_64_apple_darwin == <<"x", "8", "6", "_", "6", "4", "-", "a", "p", "p", "l", "e", "-", "d", "a", "r", "w", "i", "n">>
arm64_apple_darwin  == <<"a", "r", "m", "6", "4", "-", "a", "p", "p", "l", "e", "-", "d", "a", "r", "w", "i", "n">>
x86_64_linux_gnu    == <<"x", "8", "6", "_", "6", "4", "-", "p", "c", "-", "l", "i", "n", "u", "x", "-", "g", "n", "u">>
x86_64_linux_gnu_short == <<"x", "8", "6", "_", "6", "4", "-", "l", "i", "n", "u", "x", "-", "g", "n", "u">>

IndexSystem(name, host) == [host |-> host, url |-> name \o <<"/">> \o host]
IndexTool(name, hosts) ==
    [name |-> name, version |-> V1,
     systems |-> [i \in DOMAIN hosts |-> IndexSystem(name, hosts[i])]]
IndexDep(name) == [packager |-> arduino, name |-> name, version |-> V1]
IndexPlatform(architecture, version, deps) ==
    [architecture |-> architecture, version |-> version,
     url |-> architecture \o <<"/">> \o version,
     toolsDependencies |-> [i \in DOMAIN deps |-> IndexDep(deps[i])]]
IndexOf(name, platforms, tools) ==
    [packages |-> <<[name |-> name, platforms |-> platforms, tools |-> tools]>>]

-----------------------------------------------------------------------------
(* calculateDiff on its own: the inputs are drawn from small Maps *)

DiffIds == {IdX, IdY}
DiffVersions == {V1, V2}
DiffPlatforms == {win32_x64, darwin_x64}
DiffKeys == <<StateKey(IdX, V1), StateKey(IdX, V2), StateKey(IdY, V1), StateKey(IdY, V2)>>
DiffVals == {<<>>, <<win32_x64>>, <<darwin_x64>>, <<win32_x64, darwin_x64>>}

RECURSIVE SortedSeq(_)
SortedSeq(S) ==
    IF S = {} THEN <<>>
    ELSE LET m == CHOOSE x \in S : \A y \in S : x <= y
         IN  <<m>> \o SortedSeq(S \ {m})

DiffMapOf(K, f) ==
    LET ks == SortedSeq(K)
    IN  [i \in DOMAIN ks |-> [key |-> DiffKeys[ks[i]], val |-> f[ks[i]]]]

DiffMaps ==
    UNION {{DiffMapOf(K, f) : f \in [K -> DiffVals]} :
              K \in {J \in SUBSET DOMAIN DiffKeys : Cardinality(J) <= MaxKeys}}

NoResult ==
    [kind |-> "none", added |-> 0, deleted |-> 0, skipped |-> 0, failed |-> 0]

Idle ==
    /\ options = [dryRun |-> FALSE, platform |-> NULL]
    /\ toolchains = <<>>
    /\ addIdx = 1
    /\ delIdx = 1
    /\ addedSystems = <<>>
    /\ addedItems = <<>>
    /\ skippedItems = <<>>
    /\ failedCount = 0
    /\ deletedItems = <<>>
    /\ result = NoResult
    /\ log = <<>>

InitDiff ==
    /\ manifest = <<>>
    /\ blobs = {}
    /\ blobs0 = {}
    /\ latestVersions = <<>>
    /\ runs = 0
    /\ Idle
    /\ pc = "diff"
    /\ expected \in DiffMaps
    /\ current \in DiffMaps
    /\ toAdd = <<>>
    /\ toDelete = <<>>
    /\ packageIndex = EmptyIndex
    /\ NoCall
    /\ NoCatalog
    /\ NoDownload

CalculateDiffStep ==
    /\ pc = "diff"
    /\ pc' = "diffed"
    /\ toAdd' = calculateDiff(expected, current).toAdd
    /\ toDelete' = calculateDiff(expected, current).toDelete
    /\ UNCHANGED <<manifest, blobs, latestVersions, blobs0, options, toolchains,
                   expected, current, addIdx, delIdx, addedSystems, addedItems, skippedItems,
                   failedCount, deletedItems, result, log, runs, packageIndex>>
    /\ UNCHANGED callVars
    /\ UNCHANGED <<catalogVars, downloadVars>>

NextDiff == CalculateDiffStep

SpecDiff == InitDiff /\ [][NextDiff]_vars

\* set views of a Map, for stating the claims
KeysOf(m) == {m[i].key : i \in DOMAIN m}
PlatformsAt(m, k) == UNION {Range(m[i].val) : i \in {j \in DOMAIN m : m[j].key = k}}
ManagedIds(m) == {id \in DiffIds : \E v \in DiffVersions : StateKey(id, v) \in KeysOf(m)}
Triple(id, v, p) == [id |-> id, version |-> v, platform |-> p]
DiffTriples == {Triple(id, v, p) : id \in DiffIds, v \in DiffVersions, p \in DiffPlatforms}
NoDup(s) == \A i, j \in DOMAIN s : s[i] = s[j] => i = j

\* C1: toAdd holds exactly the triples (id, version, platform) with id@version
\* a key of desired and platform in desired[id@version] but not in
\* current[id@version] (absent key = empty set), each once.
C1_ToAddExact ==
    pc = "diffed" =>
        /\ Range(toAdd) =
               {t \in DiffTriples :
                   /\ StateKey(t.id, t.version) \in KeysOf(expected)
                   /\ t.platform \in PlatformsAt(expected, StateKey(t.id, t.version))
                   /\ t.platform \notin PlatformsAt(current, StateKey(t.id, t.version))}
        /\ NoDup(toAdd)

C1_Witness ==
    /\ pc = "diffed"
    /\ toAdd # <<>>
    /\ \E k \in KeysOf(expected) \cap KeysOf(current) :
           /\ PlatformsAt(expected, k) \cap PlatformsAt(current, k) # {}
           /\ PlatformsAt(expected, k) \ PlatformsAt(current, k) # {}

-----------------------------------------------------------------------------
(* toOpenBlockPlatform on its own: the hosts are an arch part and an OS part *)

\* the state of a sync run, but for the position of the script
runVars ==
    <<manifest, blobs, latestVersions, blobs0, options, toolchains, expected, current,
      toAdd, toDelete, addIdx, delIdx, addedSystems, addedItems, skippedItems,
      failedCount, deletedItems, result, log, runs>>

\* no sync run is going on and nothing is published
NoRun ==
    /\ manifest = <<>>
    /\ blobs = {}
    /\ blobs0 = {}
    /\ latestVersions = <<>>
    /\ runs = 0
    /\ Idle
    /\ expected = <<>>
    /\ current = <<>>
    /\ toAdd = <<>>
    /\ toDelete = <<>>

HostArchs ==
    <<<<"x", "8", "6", "_", "6", "4">>,
      <<"x", "6", "4">>,
      <<"a", "m", "d", "6", "4">>,
      <<"i", "6", "8", "6">>,
      <<"i", "3", "8", "6">>,
      <<"x", "8", "6">>,
      <<"i", "a", "3", "2">>,
      <<"a", "r", "m", "6", "4">>,
      <<"a", "a", "r", "c", "h", "6", "4">>,
      <<"a", "r", "m">>,
      <<"a", "r", "m", "v", "6", "l">>,
      <<"a", "r", "m", "v", "7", "l">>,
      <<"a", "r", "m", "h", "f">>,
      <<"X", "8", "6", "_", "6", "4">>,
      <<"A", "A", "r", "c", "h", "6", "4">>,
      <<"A", "R", "M", "6", "4">>,
      <<"a", "r", "m", "6", "4", "-", "x", "8", "6", "_", "6", "4">>,
      <<"x", "8", "6", "_", "6", "4", "-", "a", "a", "r", "c", "h", "6", "4">>,
      <<"r", "i", "s", "c", "v", "6", "4">>,
      <<>>>>
HostOss ==
    <<<<"m", "i", "n", "g", "w", "3", "2">>,
      <<"w", "i", "n", "d", "o", "w", "s">>,
      <<"w", "i", "n", "3", "2">>,
      <<"w", "i", "n", "6", "4">>,
      <<"a", "p", "p", "l", "e", "-", "d", "a", "r", "w", "i", "n", "2", "0">>,
      <<"m", "a", "c", "o", "s">>,
      <<"o", "s", "x">>,
      <<"l", "i", "n", "u", "x", "-", "g", "n", "u">>,
      <<"l", "i", "n", "u", "x", "-", "g", "n", "u", "e", "a", "b", "i", "h", "f">>,
      <<"p", "c", "-", "l", "i", "n", "u", "x", "-", "g", "n", "u">>,
      <<"A", "p", "p", "l", "e", "-", "D", "a", "r", "w", "i", "n">>,
      <<"L", "i", "n", "u", "x">>,
      <<"f", "r", "e", "e", "b", "s", "d">>,
      <<>>>>

ClassifyHosts ==
    {HostArchs[i] \o <<"-">> \o HostOss[j] : i \in DOMAIN HostArchs, j \in DOMAIN HostOss}
        \cup {NULL, UNDEFINED, <<>>}

InitClassify ==
    /\ NoRun
    /\ pc = "classify"
    /\ packageIndex = EmptyIndex
    /\ request = NoRequest
    /\ resources = NoResources
    /\ packaged = NotPackaged
    /\ arduinoHost \in ClassifyHosts
    /\ classified = NULL
    /\ NoCatalog
    /\ NoDownload

ToOpenBlockPlatformStep ==
    /\ pc = "classify"
    /\ pc' = "classified"
    /\ classified' = toOpenBlockPlatform(arduinoHost)
    /\ UNCHANGED <<runVars, packageIndex, request, resources, packaged, arduinoHost>>
    /\ UNCHANGED <<catalogVars, downloadVars>>

NextClassify == ToOpenBlockPlatformStep

SpecClassify == InitClassify /\ [][NextClassify]_vars

\* a rule of PLATFORM_MATCHERS applies to a host
RuleApplies(i, host) == matches(PLATFORM_MATCHERS[i], toLowerCase(host))
Falsy(host) == host \in {NULL, UNDEFINED, <<>>}
HostHas(host, kws) == \E kw \in kws : includes(toLowerCase(host), kw)
Arm64Words == {<<"a", "r", "m", "6", "4">>, <<"a", "a", "r", "c", "h", "6", "4">>}
MacWords == {<<"d", "a", "r", "w", "i", "n">>, <<"a", "p", "p", "l", "e">>, <<"m", "a", "c", "o", "s">>, <<"o", "s", "x">>}
LinuxWords == {<<"l", "i", "n", "u", "x">>}

\* C18: classify(host) is the platform of the first rule, in list order, for
\* which the lower-cased host contains an arch keyword and an OS keyword and
\* no exclude keyword; it is none when no rule applies or the host is empty
\* or null.  "X86_64-Apple-Darwin" is darwin-x64, "i686-mingw32" is
\* win32-ia32, "x86_64-pc-linux-gnu" is linux-x64, "riscv64-freebsd" is none.
C18_ClassifyFirstRule ==
    pc = "classified" =>
        /\ Falsy(arduinoHost) => classified = NULL
        /\ ~Falsy(arduinoHost) =>
               IF \E i \in DOMAIN PLATFORM_MATCHERS : RuleApplies(i, arduinoHost)
               THEN \E i \in DOMAIN PLATFORM_MATCHERS :
                        /\ RuleApplies(i, arduinoHost)
                        /\ \A j \in 1..(i - 1) : ~RuleApplies(j, arduinoHost)
                        /\ classified = PLATFORM_MATCHERS[i].platform
               ELSE classified = NULL
        /\ arduinoHost = <<"X", "8", "6", "_", "6", "4", "-", "A", "p", "p", "l", "e", "-", "D", "a", "r", "w", "i", "n">> => classified = darwin_x64
        /\ arduinoHost = <<"i", "6", "8", "6", "-", "m", "i", "n", "g", "w", "3", "2">> => classified = win32_ia32
        /\ arduinoHost = <<"x", "8", "6", "_", "6", "4", "-", "p", "c", "-", "l", "i", "n", "u", "x", "-", "g", "n", "u">> => classified = linux_x64
        /\ arduinoHost = <<"r", "i", "s", "c", "v", "6", "4", "-", "f", "r", "e", "e", "b", "s", "d">> => classified = NULL

C18_Witness ==
    /\ pc = "classified"
    /\ classified = darwin_arm64
    /\ Cardinality({i \in DOMAIN PLATFORM_MATCHERS : RuleApplies(i, arduinoHost)}) > 1

\* C19: classify("aarch64-apple-darwin20") is darwin-arm64, and no host that
\* contains arm64 or aarch64 together with a macOS OS keyword is classified
\* as darwin-x64.
C19_AppleSiliconNotIntel ==
    pc = "classified" =>
        /\ arduinoHost = <<"a", "a", "r", "c", "h", "6", "4", "-", "a", "p", "p", "l", "e", "-", "d", "a", "r", "w", "i", "n", "2", "0">> => classified = darwin_arm64
        /\ (~Falsy(arduinoHost) /\ HostHas(arduinoHost, Arm64Words)
                /\ HostHas(arduinoHost, MacWords))
           => classified # darwin_x64

C19_Witness ==
    /\ pc = "classified"
    /\ arduinoHost = <<"a", "r", "m", "6", "4", "-", "x", "8", "6", "_", "6", "4", "-", "a", "p", "p", "l", "e", "-", "d", "a", "r", "w", "i", "n", "2", "0">>
    /\ classified = darwin_arm64

\* C20: classify("armv7l-linux-gnueabihf") is linux-arm; a Linux host is
\* classified as linux-arm only if it contains neither arm64 nor aarch64, and
\* a Linux host that contains arm64 or aarch64 is classified as linux-arm64.
C20_Arm32NotArm64 ==
    pc = "classified" =>
        /\ arduinoHost = <<"a", "r", "m", "v", "7", "l", "-", "l", "i", "n", "u", "x", "-", "g", "n", "u", "e", "a", "b", "i", "h", "f">> => classified = linux_arm
        /\ (~Falsy(arduinoHost) /\ HostHas(arduinoHost, LinuxWords)) =>
               /\ classified = linux_arm => ~HostHas(arduinoHost, Arm64Words)
               /\ HostHas(arduinoHost, Arm64Words) => classified = linux_arm64

C20_Witness ==
    /\ pc = "classified"
    /\ arduinoHost = <<"a", "a", "r", "c", "h", "6", "4", "-", "l", "i", "n", "u", "x", "-", "g", "n", "u", "e", "a", "b", "i", "h", "f">>
    /\ classified = linux_arm64

\* C21: for every host string classify returns none or a member of
\* OPENBLOCK_PLATFORMS, never an identifier outside that set.
C21_ClassifyInOpenBlockPlatforms ==
    pc = "classified" => classified \in Range(ALL_PLATFORMS) \cup {NULL}

\* C21 as the code has it: classify returns none or one of the seven
\* platforms of PLATFORM_MATCHERS, the six of OPENBLOCK_PLATFORMS and
\* win32-ia32; a host of another OS or architecture is none, never a name
\* made from the host.
C21_ClassifyInClosedSet ==
    pc = "classified" =>
        /\ classified \in Range(ALL_PLATFORMS) \cup {win32_ia32, NULL}
        /\ classified = win32_ia32 =>
               /\ HostHas(arduinoHost, {<<"i", "6", "8", "6">>, <<"i", "3", "8", "6">>, <<"x", "8", "6">>, <<"i", "a", "3", "2">>})
               /\ HostHas(arduinoHost, {<<"m", "i", "n", "g", "w">>, <<"w", "i", "n", "d", "o", "w", "s">>, <<"w", "i", "n", "3", "2">>})

C21_Witness ==
    /\ pc = "classified"
    /\ arduinoHost = <<"i", "a", "3", "2", "-", "w", "i", "n", "d", "o", "w", "s">>
    /\ classified = win32_ia32


-----------------------------------------------------------------------------
(* collectDownloadResources on its own: the index is one package *)

\* tool dependencies of a platform of the index
MaxDeps == 2

ResolveNames == {arduino, ArduinoCap, esp32}
ResolvePlatformLists ==
    {<<>>, <<[a |-> avr, v |-> V1]>>, <<[a |-> AVRCap, v |-> V1]>>, <<[a |-> avr, v |-> V2]>>,
     <<[a |-> avr, v |-> V2], [a |-> avr, v |-> V1]>>}
ResolveDeps ==
    UNION {{[i \in 1..n |-> ToolNames[f[i]]] : f \in [1..n -> DOMAIN ToolNames]} :
              n \in 0..MaxDeps}
ResolveHostLists ==
    {<<>>, <<x86_64_mingw32>>, <<i686_mingw32>>, <<i686_mingw32, x86_64_mingw32>>,
     <<x86_64_apple_darwin>>, <<arm64_apple_darwin, x86_64_apple_darwin>>,
     <<x86_64_linux_gnu>>, <<x86_64_linux_gnu_short, x86_64_linux_gnu>>}
\* a tool is not defined (<<>>) or defined with a list of systems
ResolveTools(name) == {<<>>} \cup {<<IndexTool(name, hosts)>> : hosts \in ResolveHostLists}
ResolveIndexes ==
    {IndexOf(name,
             [i \in DOMAIN ps |-> IndexPlatform(ps[i].a, ps[i].v, deps)],
             gcc \o dude) :
        name \in ResolveNames, ps \in ResolvePlatformLists, deps \in ResolveDeps,
        gcc \in ResolveTools(avr_gcc), dude \in ResolveTools(avrdude)}
ResolveTargets == {win32_x64, darwin_arm64, linux_x64}

InitResolve ==
    /\ NoRun
    /\ pc = "resolve"
    /\ packageIndex \in ResolveIndexes
    /\ request \in {[packager |-> arduino, architecture |-> avr, version |-> V1,
                     targetPlatform |-> t] : t \in ResolveTargets}
    /\ resources = NoResources
    /\ packaged = NotPackaged
    /\ arduinoHost = NULL
    /\ classified = NULL
    /\ NoCatalog
    /\ NoDownload

CollectDownloadResourcesStep ==
    /\ pc = "resolve"
    /\ pc' = "resolved"
    /\ resources' = collectDownloadResources(packageIndex, request.packager,
                        request.architecture, request.version, request.targetPlatform)
    /\ UNCHANGED <<runVars, packageIndex, request, packaged, arduinoHost, classified>>
    /\ UNCHANGED <<catalogVars, downloadVars>>

\* the rest of packageToolchainDirect on these resources
PackageToolchainDirectStep(ioOk) ==
    /\ pc = "resolved"
    /\ pc' = "packaged"
    /\ packaged' = packageToolchainDirect(resources, ioOk)
    /\ UNCHANGED <<runVars, packageIndex, request, resources, arduinoHost, classified>>
    /\ UNCHANGED <<catalogVars, downloadVars>>

NextResolve ==
    \/ CollectDownloadResourcesStep
    \/ \E ioOk \in BOOLEAN : PackageToolchainDirectStep(ioOk)

SpecResolve == InitResolve /\ [][NextResolve]_vars

\* the index as the claims word it: packages of a packager, platforms that
\* match the request, definitions and systems of a tool dependency
PackagesOf(packager) ==
    {pkg \in Range(packageIndex.packages) : toLowerCase(pkg.name) = toLowerCase(packager)}
PlatformsMatching ==
    {p \in UNION {Range(pkg.platforms) : pkg \in PackagesOf(request.packager)} :
        /\ p.architecture = request.architecture
        /\ p.version = request.version}
PlatformsMatchingAnyCase ==
    {p \in UNION {Range(pkg.platforms) : pkg \in PackagesOf(request.packager)} :
        /\ toLowerCase(p.architecture) = toLowerCase(request.architecture)
        /\ p.version = request.version}
ToolDefs(dep) ==
    {t \in UNION {Range(pkg.tools) : pkg \in PackagesOf(dep.packager)} :
        t.name = dep.name /\ t.version = dep.version}
SystemsFor(dep, platform) ==
    {sys \in UNION {Range(t.systems) : t \in ToolDefs(dep)} :
        toOpenBlockPlatform(sys.host) = platform}
FallbackSystemsFor(dep, platform) ==
    IF getFallbackPlatform(platform) = NULL THEN {}
    ELSE SystemsFor(dep, getFallbackPlatform(platform))
RequestedDeps ==
    IF PlatformsMatchingAnyCase = {} THEN <<>>
    ELSE (CHOOSE p \in PlatformsMatchingAnyCase : TRUE).toolsDependencies
Resolved == pc \in {"resolved", "packaged"}
NoPartialResult ==
    /\ resources.errors # <<>>
    /\ resources.platform = None
    /\ resources.tools = <<>>
    /\ resources.missingTools = <<>>

\* C14 as written: a dependency whose tool has no system for the target
\* platform but one for the fallback platform of the target is resolved to
\* that system; a tool is in missingTools only if it has neither.
C14_FallbackSubstitution ==
    Resolved =>
        \A i \in DOMAIN RequestedDeps :
            LET dep      == RequestedDeps[i]
                native   == SystemsFor(dep, request.targetPlatform)
                fallback == FallbackSystemsFor(dep, request.targetPlatform)
            IN  /\ (ToolDefs(dep) # {} /\ native = {} /\ fallback # {}) =>
                       \E t \in Range(resources.tools) :
                           /\ ToolKey(t) = ToolKey(dep)
                           /\ t.url \in {sys.url : sys \in fallback}
                /\ ToolKey(dep) \in Range(resources.missingTools) =>
                       native = {} /\ fallback = {}

\* C15 as written: when no Platform of the index matches the packager (in
\* any case), the architecture and the version, resolve reports a hard error
\* and no partial result, and packaging fails without a download.
C15_NoPlatformHardError ==
    PlatformsMatching = {} =>
        /\ Resolved => NoPartialResult
        /\ pc = "packaged" => packaged.threw = "Error" /\ ~packaged.downloaded

\* C15 amended: the same when no Platform matches the packager and the
\* architecture, both in any case, and the version.
C15_NoPlatformAnyCaseHardError ==
    PlatformsMatchingAnyCase = {} =>
        /\ Resolved => NoPartialResult /\ Len(resources.errors) = 1
        /\ pc = "packaged" => packaged.threw = "Error" /\ ~packaged.downloaded

C15_Witness ==
    /\ pc = "packaged"
    /\ PlatformsMatchingAnyCase = {}
    /\ \E pkg \in PackagesOf(request.packager) : pkg.platforms # <<>> /\ pkg.tools # <<>>
    /\ packaged.threw = "Error"

\* C17: when the Platform is found and every tool dependency has a Tool
\* definition with a system for the requested platform, resolve returns no
\* missing tool, no hard error and one tool artifact per dependency, in
\* dependency order, each taken from a system for that platform.
C17_FullResolution ==
    (/\ Resolved
     /\ PlatformsMatchingAnyCase # {}
     /\ \A i \in DOMAIN RequestedDeps :
            SystemsFor(RequestedDeps[i], request.targetPlatform) # {})
    => /\ resources.missingTools = <<>>
       /\ resources.errors = <<>>
       /\ resources.platform # None
       /\ Len(resources.tools) = Len(RequestedDeps)
       /\ \A i \in DOMAIN RequestedDeps :
              /\ ToolKey(resources.tools[i]) = ToolKey(RequestedDeps[i])
              /\ resources.tools[i].url \in
                     {sys.url : sys \in SystemsFor(RequestedDeps[i], request.targetPlatform)}

C17_Witness ==
    /\ pc = "resolved"
    /\ Len(resources.tools) = 2
    /\ resources.tools[1].name # resources.tools[2].name
    /\ resources.missingTools = <<>>
    /\ resources.errors = <<>>

-----------------------------------------------------------------------------
(* packages-json.js and sync.js: pure parts *)

\* toolchains.json: the configured packages
config == [packages |-> <<[id |-> IdX, core |-> <<"a", "r", "d", "u", "i", "n", "o", ":", "a", "v", "r">>]>>]

\* config.arduino.packages.find(p => p.id === id)
findPkgConfig(id) ==
    LET hit(i) == config.packages[i].id = id
    IN  IF \E i \in DOMAIN config.packages : hit(i)
        THEN Some(config.packages[CHOOSE i \in DOMAIN config.packages :
                                      hit(i) /\ \A j \in 1..(i - 1) : ~hit(j)])
        ELSE None

\* `${id}@${version}#${platform}`
ItemKey(item) == item.id \o <<"@">> \o item.version \o <<"#">> \o item.platform

\* `${id}-${platform}-${version}.zip`
ArchiveFileName(item) ==
    item.id \o <<"-">> \o item.platform \o <<"-">> \o item.version \o <<".zip">>

\* `toolchains/${archiveFileName}`
RemotePath(archiveFileName) == <<"toolchains/">> \o archiveFileName

\* what packageArduinoToolchain returns, without fallbackUsed
SystemInfo(item) == [host |-> item.platform, archiveFileName |-> ArchiveFileName(item)]

\* findToolchain(toolchains, id, version): the index of the first match, 0 if none
findToolchain(list, id, version) ==
    IF \E i \in DOMAIN list : list[i].id = id /\ list[i].version = version
    THEN CHOOSE i \in DOMAIN list :
             /\ list[i].id = id /\ list[i].version = version
             /\ \A j \in 1..(i - 1) : ~(list[j].id = id /\ list[j].version = version)
    ELSE 0

\* the comparator of toolchains.sort: id ascending, then version descending
compareToolchains(a, b) ==
    IF localeCompare(a.id, b.id) # 0
    THEN localeCompare(a.id, b.id)
    ELSE localeCompare(b.version, a.version)

\* Array.prototype.sort is stable: insertion after the elements not greater
RECURSIVE sortToolchains(_)
sortToolchains(list) ==
    IF list = <<>> THEN <<>>
    ELSE LET n    == Len(list)
             x    == list[n]
             done == sortToolchains(SubSeq(list, 1, n - 1))
             k    == Cardinality({i \in DOMAIN done : compareToolchains(done[i], x) <= 0})
         IN  SubSeq(done, 1, k) \o <<x>> \o SubSeq(done, k + 1, Len(done))

RECURSIVE sortSystems(_)
sortSystems(systems) ==
    IF systems = <<>> THEN <<>>
    ELSE LET n    == Len(systems)
             x    == systems[n]
             done == sortSystems(SubSeq(systems, 1, n - 1))
             k    == Cardinality({i \in DOMAIN done : localeCompare(done[i].host, x.host) <= 0})
         IN  SubSeq(done, 1, k) \o <<x>> \o SubSeq(done, k + 1, Len(done))

\* updatePackagesJsonFile, first loop: remove the deleted items
RECURSIVE removeDeleted(_, _)
removeDeleted(list, del) ==
    IF del = <<>> THEN list
    ELSE LET item == Head(del)
             t    == findToolchain(list, item.id, item.version)
             next == IF t = 0 THEN list
                     ELSE [list EXCEPT ![t].systems =
                              SelectSeq(@, LAMBDA sys : sys.host # item.platform)]
         IN  removeDeleted(next, Tail(del))

\* updatePackagesJsonFile, second loop: add the systems of the added items
RECURSIVE addNew(_, _, _)
addNew(list, add, added) ==
    IF add = <<>> THEN list
    ELSE LET item == Head(add)
             key  == ItemKey(item)
             t    == findToolchain(list, item.id, item.version)
             next ==
                 IF ~MapHas(added, key) THEN list
                 ELSE IF t = 0
                 THEN Append(list, [id |-> item.id, version |-> item.version,
                                    systems |-> <<MapGet(added, key)>>])
                 ELSE [list EXCEPT ![t].systems = Append(@, MapGet(added, key))]
         IN  addNew(next, Tail(add), added)

\* the toolchains updatePackagesJsonFile uploads, from the ones it fetched
applyUpdate(base, add, added, del) ==
    LET removed  == removeDeleted(base, del)
        nonEmpty == SelectSeq(removed, LAMBDA t : t.systems # <<>>)
        withNew  == addNew(nonEmpty, add, added)
        sorted   == sortToolchains(withNew)
    IN  [i \in DOMAIN sorted |-> [sorted[i] EXCEPT !.systems = sortSystems(@)]]

\* mutant: the toDelete argument is lost and its default [] is used
updatePackagesJsonFile_NoDeletes(base, add, added, del) ==
    applyUpdate(base, add, added, <<>>)

updatePackagesJsonFile(base, add, added, del) == applyUpdate(base, add, added, del)

\* the platform filter of sync (--platform)
filterPlatform(items, platform) ==
    IF platform = NULL THEN items
    ELSE SelectSeq(items, LAMBDA item : item.platform = platform)

\* mutant: old versions are deleted before the new ones are packaged
PhaseOrder_DeleteFirst == <<"deleting", "adding", "updating", "report">>

\* mutant: packages.json is rewritten before the old artifacts are deleted
PhaseOrder_UpdateBeforeDelete == <<"adding", "updating", "deleting", "report">>

\* the order of the blocks of sync after the plan
PhaseOrder == <<"adding", "deleting", "updating", "report">>

\* whether a block has anything to do (the guards `if (toAdd.length > 0)`,
\* `if (toDelete.length > 0)`)
PhaseHasWork(phase, add, del) ==
    CASE phase = "adding"   -> add # <<>>
      [] phase = "deleting" -> del # <<>>
      [] OTHER              -> TRUE

\* the first block at or after position i that has something to do
RECURSIVE PhaseFrom(_, _, _)
PhaseFrom(i, add, del) ==
    IF i > Len(PhaseOrder) THEN "done"
    ELSE IF PhaseHasWork(PhaseOrder[i], add, del) THEN PhaseOrder[i]
    ELSE PhaseFrom(i + 1, add, del)

PhaseAfter(phase, add, del) ==
    PhaseFrom(1 + CHOOSE i \in DOMAIN PhaseOrder : PhaseOrder[i] = phase, add, del)

-----------------------------------------------------------------------------
(* sync.js: the run *)

\* a call of the run to the outside
Event(op, ok, path, data) == [op |-> op, ok |-> ok, path |-> path, data |-> data]

\* fetchRemotePackagesJson: a failed fetch is logged and yields
\* createEmptyPackagesJson(), whose toolchains are []
fetchRemotePackagesJson(ok) == IF ok THEN manifest ELSE <<>>

Summary ==
    [kind |-> "returned", added |-> Len(addedItems), deleted |-> Len(deletedItems),
     skipped |-> Len(skippedItems), failed |-> failedCount]

\* upstream indexes of a run: complete; avr-gcc for Windows only; both tools
\* undefined; avr-gcc undefined and avrdude for Windows only
SyncHosts == <<x86_64_mingw32, x86_64_apple_darwin, arm64_apple_darwin>>
SyncPlatforms(versions) ==
    [i \in DOMAIN versions |-> IndexPlatform(avr, versions[i], ToolNames)]
SyncIndexes ==
    {IndexOf(arduino, SyncPlatforms(<<V2, V1>>),
             <<IndexTool(avr_gcc, SyncHosts), IndexTool(avrdude, SyncHosts)>>),
     IndexOf(arduino, SyncPlatforms(<<V2, V1>>),
             <<IndexTool(avr_gcc, <<x86_64_mingw32>>), IndexTool(avrdude, SyncHosts)>>),
     IndexOf(arduino, SyncPlatforms(<<V2, V1>>), <<>>),
     IndexOf(arduino, SyncPlatforms(<<V2, V1>>),
             <<IndexTool(avrdude, <<x86_64_mingw32>>)>>)}

\* what mergePackageIndexes can return: the upstream index of the moment, or
\* the empty index when no URL could be fetched
MergedIndexes == SyncIndexes \cup {EmptyIndex}

\* the resolution of an item of toAdd against a merged index
collectItemResources(index, item) ==
    LET pkgConfig == findPkgConfig(item.id)
        core      == parseCore(pkgConfig[1].core)
    IN  collectDownloadResources(index, core.packager, core.architecture,
                                 item.version, item.platform)

\* the items a run can plan, and their resolutions against the indexes of a
\* run: collectDownloadResources is a pure function, and its values are
\* computed once
SyncItems ==
    {[id |-> IdX, version |-> v, platform |-> p] :
        v \in {V1, V2}, p \in Range(OPENBLOCK_PLATFORMS)}
Resolutions ==
    [index \in MergedIndexes, item \in SyncItems |->
        collectItemResources(index, item)]
resolveItem(index, item) == Resolutions[index, item]

\* the catch of the loop over toAdd
AddOutcome(threw) ==
    IF threw = "none" THEN "added"
    ELSE IF threw = "MissingToolsError" THEN "skipped"
    ELSE "failed"

\* an error of one item ends the loop
AfterAdd_AbortOnError(idx, add, del, threw) ==
    IF threw # "Error" /\ idx < Len(add) THEN "adding"
    ELSE PhaseAfter("adding", add, del)

\* where the script is after a pass of the loop over toAdd
AfterAdd(idx, add, del, threw) ==
    IF idx < Len(add) THEN "adding" ELSE PhaseAfter("adding", add, del)

WithMissing(item, missingTools) ==
    [id |-> item.id, version |-> item.version, platform |-> item.platform,
     missingTools |-> missingTools]

InitHosts == <<win32_x64, darwin_x64>>

InitEntry(id, version, hosts) ==
    [id |-> id, version |-> version,
     systems |-> LET hs == SelectSeq(InitHosts, LAMBDA h : h \in hosts)
                 IN  [i \in DOMAIN hs |->
                         SystemInfo([id |-> id, version |-> version, platform |-> hs[i]])]]

\* published manifests: unique (id, version), unique hosts, no empty entry,
\* in the order updatePackagesJsonFile leaves
InitManifests ==
    {applyUpdate(<<InitEntry(IdX, V1, h1), InitEntry(IdX, V2, h2), InitEntry(IdY, V1, h3)>>,
                 <<>>, <<>>, <<>>) :
        h1 \in SUBSET Range(InitHosts), h2 \in {{}, {win32_x64}},
        h3 \in {{}, {win32_x64}}}

PathsOf(list) ==
    UNION {{RemotePath(list[i].systems[j].archiveFileName) : j \in DOMAIN list[i].systems} :
              i \in DOMAIN list}

Init ==
    /\ manifest \in InitManifests
    /\ blobs = PathsOf(manifest)
    /\ blobs0 = blobs
    /\ latestVersions \in {<<>>, <<[key |-> IdX, val |-> V1]>>, <<[key |-> IdX, val |-> V2]>>}
    /\ runs = 0
    /\ Idle
    /\ pc = "idle"
    /\ expected = <<>>
    /\ current = <<>>
    /\ toAdd = <<>>
    /\ toDelete = <<>>
    /\ packageIndex = EmptyIndex
    /\ NoCall
    /\ NoCatalog
    /\ NoDownload

\* mutant: the dryRun option is read but the block `if (dryRun)` is missing
StartSync_DryRunIgnored(dryRun, platform, fetchOk, index) ==
    /\ pc = "idle"
    /\ runs < MaxRuns
    /\ index = EmptyIndex
    /\ LET read == fetchRemotePackagesJson(fetchOk)
           exp  == buildExpectedState(config, latestVersions)
           cur  == buildCurrentState(read)
           diff == calculateDiff(exp, cur)
           add  == filterPlatform(diff.toAdd, platform)
           del  == filterPlatform(diff.toDelete, platform)
       IN  /\ runs' = runs + 1
           /\ options' = [dryRun |-> dryRun, platform |-> platform]
           /\ toolchains' = read
           /\ blobs0' = blobs
           /\ log' = <<Event("fetchRemotePackagesJson", fetchOk, <<>>, read)>>
           /\ expected' = exp
           /\ current' = cur
           /\ toAdd' = add
           /\ toDelete' = del
           /\ pc' = PhaseFrom(1, add, del)
           /\ result' = IF add = <<>> /\ del = <<>>
                        THEN [NoResult EXCEPT !.kind = "returned"]
                        ELSE NoResult
    /\ addIdx' = 1
    /\ delIdx' = 1
    /\ addedSystems' = <<>>
    /\ failedCount' = 0
    /\ addedItems' = <<>>
    /\ skippedItems' = <<>>
    /\ deletedItems' = <<>>
    /\ UNCHANGED <<manifest, blobs, latestVersions, packageIndex>>
    /\ UNCHANGED callVars
    /\ UNCHANGED <<catalogVars, downloadVars>>
\* sync, up to the plan: read the config, fetch packages.json, find the latest
\* versions, diff, filter; return when there is nothing to do or on a dry run
StartSync(dryRun, platform, fetchOk, index) ==
    /\ pc = "idle"
    /\ runs < MaxRuns
    /\ LET read == fetchRemotePackagesJson(fetchOk)
           exp  == buildExpectedState(config, latestVersions)
           cur  == buildCurrentState(read)
           diff == calculateDiff(exp, cur)
           add  == filterPlatform(diff.toAdd, platform)
           del  == filterPlatform(diff.toDelete, platform)
       IN  /\ runs' = runs + 1
           /\ options' = [dryRun |-> dryRun, platform |-> platform]
           /\ toolchains' = read
           /\ blobs0' = blobs
           /\ log' = <<Event("fetchRemotePackagesJson", fetchOk, <<>>, read)>>
           /\ expected' = exp
           /\ current' = cur
           /\ toAdd' = add
           /\ toDelete' = del
           /\ addIdx' = 1
           /\ delIdx' = 1
           /\ addedSystems' = <<>>
           /\ failedCount' = 0
           /\ IF add = <<>> /\ del = <<>>
              THEN /\ pc' = "done"
                   /\ addedItems' = <<>>
                   /\ skippedItems' = <<>>
                   /\ deletedItems' = <<>>
                   /\ result' = [NoResult EXCEPT !.kind = "returned"]
                   /\ index = EmptyIndex
                   /\ UNCHANGED packageIndex
              ELSE IF dryRun
              THEN LET missing(it) ==
                           IF findPkgConfig(it.id) = None THEN <<>>
                           ELSE resolveItem(index, it).missingTools
                       skip(it)   == findPkgConfig(it.id) = None \/ missing(it) # <<>>
                       skipped    == SelectSeq(add, skip)
                   IN  /\ pc' = "done"
                       /\ packageIndex' = index
                       /\ skippedItems' =
                              [i \in DOMAIN skipped |->
                                  WithMissing(skipped[i], missing(skipped[i]))]
                       /\ addedItems' = SelectSeq(add, LAMBDA it : ~skip(it))
                       /\ deletedItems' = del
                       /\ result' = [NoResult EXCEPT !.kind = "returned"]
              ELSE /\ pc' = PhaseFrom(1, add, del)
                   /\ addedItems' = <<>>
                   /\ skippedItems' = <<>>
                   /\ deletedItems' = <<>>
                   /\ result' = NoResult
                   /\ index = EmptyIndex
                   /\ UNCHANGED packageIndex
    /\ UNCHANGED <<manifest, blobs, latestVersions>>
    /\ UNCHANGED callVars
    /\ UNCHANGED <<catalogVars, downloadVars>>

\* one pass of the loop over toAdd: packageArduinoToolchain merges the
\* indexes, resolves, downloads, zips and uploads; sync records the item as
\* added, as skipped (MissingToolsError) or as failed (any other error).
\* ioOk is whether every download, checksum, extraction, the zip and the
\* upload went through; packageIndex is the merged index of this pass; the
\* log keeps the start of the downloads and the upload that succeeded
AddItem(index, ioOk) ==
    /\ pc = "adding"
    /\ LET item  == toAdd[addIdx]
           path  == RemotePath(ArchiveFileName(item))
           res   == resolveItem(index, item)
           pkgd  == IF findPkgConfig(item.id) = None
                    THEN [threw |-> "Error", downloaded |-> FALSE]
                    ELSE packageToolchainDirect(res, ioOk)
           threw == pkgd.threw
           calls ==
               (IF pkgd.downloaded
                THEN <<Event("downloadAndVerify", ioOk, path, <<>>)>>
                ELSE <<>>)
               \o (IF pkgd.threw = "none"
                   THEN <<Event("uploadFile", TRUE, path, <<>>)>>
                   ELSE <<>>)
       IN  /\ log' = log \o calls
           /\ CASE AddOutcome(threw) = "added" ->
                      /\ blobs' = blobs \cup {path}
                      /\ addedSystems' = MapSet(addedSystems, ItemKey(item), SystemInfo(item))
                      /\ addedItems' = Append(addedItems, item)
                      /\ UNCHANGED <<skippedItems, failedCount>>
                [] AddOutcome(threw) = "skipped" ->
                      /\ skippedItems' =
                             Append(skippedItems, WithMissing(item, res.missingTools))
                      /\ UNCHANGED <<blobs, addedSystems, addedItems, failedCount>>
                [] OTHER ->
                      /\ failedCount' = failedCount + 1
                      /\ UNCHANGED <<blobs, addedSystems, addedItems, skippedItems>>
           /\ addIdx' = addIdx + 1
           /\ pc' = AfterAdd(addIdx, toAdd, toDelete, threw)
           /\ packageIndex' = index
    /\ UNCHANGED <<manifest, latestVersions, blobs0, options, toolchains, expected,
                   current, toAdd, toDelete, delIdx, deletedItems, result, runs>>
    /\ UNCHANGED callVars
    /\ UNCHANGED <<catalogVars, downloadVars>>

\* one pass of the loop over toDelete: deleteFile succeeds or throws
DeleteItem(ok) ==
    /\ pc = "deleting"
    /\ LET item == toDelete[delIdx]
           path == RemotePath(ArchiveFileName(item))
       IN  /\ log' = Append(log, Event("deleteFile", ok, path, <<>>))
           /\ blobs' = IF ok THEN blobs \ {path} ELSE blobs
           /\ deletedItems' = IF ok THEN Append(deletedItems, item) ELSE deletedItems
           /\ delIdx' = delIdx + 1
           /\ pc' = IF delIdx < Len(toDelete) THEN "deleting"
                    ELSE PhaseAfter("deleting", toAdd, toDelete)
    /\ UNCHANGED <<manifest, latestVersions, blobs0, options, toolchains, expected,
                   current, toAdd, toDelete, addIdx, addedSystems, addedItems,
                   skippedItems, failedCount, result, runs, packageIndex>>
    /\ UNCHANGED callVars
    /\ UNCHANGED <<catalogVars, downloadVars>>

\* the block "Update packages.json in R2": updatePackagesJsonFile fetches
\* packages.json again, edits it and uploads it; a failed upload throws out
\* of sync
UpdatePackagesJson(fetchOk, writeOk) ==
    /\ pc = "updating"
    /\ IF addedSystems # <<>> \/ deletedItems # <<>>
       THEN LET base    == fetchRemotePackagesJson(fetchOk)
                updated == updatePackagesJsonFile(base, toAdd, addedSystems, toDelete)
            IN  /\ log' = log \o <<Event("fetchRemotePackagesJson", fetchOk, <<>>, base),
                                   Event("uploadJson", writeOk, <<>>, updated)>>
                /\ manifest' = IF writeOk THEN updated ELSE manifest
                /\ pc' = IF writeOk THEN PhaseAfter("updating", toAdd, toDelete)
                         ELSE "threw"
                /\ result' = IF writeOk THEN result
                             ELSE [NoResult EXCEPT !.kind = "threw"]
       ELSE /\ fetchOk /\ writeOk
            /\ pc' = PhaseAfter("updating", toAdd, toDelete)
            /\ UNCHANGED <<log, manifest, result>>
    /\ UNCHANGED <<blobs, latestVersions, blobs0, options, toolchains, expected,
                   current, toAdd, toDelete, addIdx, delIdx, addedSystems,
                   addedItems, skippedItems, failedCount, deletedItems, runs,
                   packageIndex>>
    /\ UNCHANGED callVars
    /\ UNCHANGED <<catalogVars, downloadVars>>

\* the report and the return value of a run that got to its end
Report ==
    /\ pc = "report"
    /\ pc' = "done"
    /\ result' = Summary
    /\ UNCHANGED <<manifest, blobs, latestVersions, blobs0, options, toolchains,
                   expected, current, toAdd, toDelete, addIdx, delIdx, addedSystems,
                   addedItems, skippedItems, failedCount, deletedItems, log, runs,
                   packageIndex>>
    /\ UNCHANGED callVars
    /\ UNCHANGED <<catalogVars, downloadVars>>

\* the process exits; the next run starts from the published state
Exit ==
    /\ pc \in {"done", "threw"}
    /\ pc' = "idle"
    /\ options' = [dryRun |-> FALSE, platform |-> NULL]
    /\ toolchains' = <<>>
    /\ expected' = <<>>
    /\ current' = <<>>
    /\ toAdd' = <<>>
    /\ toDelete' = <<>>
    /\ addIdx' = 1
    /\ delIdx' = 1
    /\ addedSystems' = <<>>
    /\ addedItems' = <<>>
    /\ skippedItems' = <<>>
    /\ failedCount' = 0
    /\ deletedItems' = <<>>
    /\ result' = NoResult
    /\ log' = <<>>
    /\ blobs0' = blobs
    /\ packageIndex' = EmptyIndex
    /\ UNCHANGED <<manifest, blobs, latestVersions, runs>>
    /\ UNCHANGED callVars
    /\ UNCHANGED <<catalogVars, downloadVars>>

PlatformOptions == {NULL, win32_x64}

Next ==
    \/ \E dryRun \in BOOLEAN, platform \in PlatformOptions, fetchOk \in BOOLEAN,
          index \in MergedIndexes :
           StartSync(dryRun, platform, fetchOk, index)
    \/ \E index \in MergedIndexes, ioOk \in BOOLEAN : AddItem(index, ioOk)
    \/ \E ok \in BOOLEAN : DeleteItem(ok)
    \/ \E fetchOk \in BOOLEAN, writeOk \in BOOLEAN : UpdatePackagesJson(fetchOk, writeOk)
    \/ Report
    \/ Exit

Spec == Init /\ [][Next]_vars

-----------------------------------------------------------------------------
(* Properties of a sync run *)

LogOps(op) == {i \in DOMAIN log : log[i].op = op}

\* the (id, version, host) triples a toolchains array publishes
Content(list) ==
    UNION {{<<list[i].id, list[i].version, list[i].systems[j].host>> :
               j \in DOMAIN list[i].systems} : i \in DOMAIN list}
ItemTriples(items) == {<<items[i].id, items[i].version, items[i].platform>> : i \in DOMAIN items}

\* the diff a rerun with the same options and upstream would plan
Replan ==
    LET d == calculateDiff(buildExpectedState(config, latestVersions),
                           buildCurrentState(manifest))
    IN  [toAdd    |-> filterPlatform(d.toAdd, options.platform),
         toDelete |-> filterPlatform(d.toDelete, options.platform)]

WroteManifest == \E i \in LogOps("uploadJson") : log[i].ok

\* C4: after a run in which every planned addition was added and every
\* planned deletion succeeded, the diff recomputed from the manifest the run
\* wrote, with upstream and configuration unchanged, is empty.
C4_Idempotent ==
    (/\ pc = "done"
     /\ WroteManifest
     /\ Len(addedItems) = Len(toAdd)
     /\ Len(deletedItems) = Len(toDelete))
    => Replan.toAdd = <<>> /\ Replan.toDelete = <<>>

\* C5: in a run no deleteFile call is followed by an uploadFile call: every
\* artifact upload precedes the first deletion.
C5_UploadsBeforeDeletes ==
    \A i \in LogOps("deleteFile"), j \in LogOps("uploadFile") : j < i

C5_Witness ==
    /\ LogOps("uploadFile") # {}
    /\ LogOps("deleteFile") # {}

C7_DeletesOnlyAfterAllAdded ==
    LogOps("deleteFile") # {} =>
        /\ failedCount = 0
        /\ skippedItems = <<>>
        /\ Len(addedItems) = Len(toAdd)

\* C8: when the manifest fetch at the start fails, sync ends with an error
\* and uploads, deletes and writes nothing.
C8_FetchFailureFatal ==
    (log # <<>> /\ ~log[1].ok) =>
        /\ result.kind # "returned"
        /\ pc \notin {"adding", "deleting", "updating", "report"}
        /\ Len(log) = 1

\* C9: when the manifest write fails, sync ends with an error and no
\* artifact of a previously published entry has been deleted.
C9_WriteFailureCommitsNothing ==
    (\E i \in LogOps("uploadJson") : ~log[i].ok) =>
        /\ result.kind = "threw"
        /\ \A p \in PathsOf(manifest) \cap blobs0 : p \in blobs

\* C10 as written: one fetch per run; at most one rewrite, which is the first
\* read with the successful additions inserted and the planned deletions
\* removed.
C10_OneReadOneWrite ==
    /\ Cardinality(LogOps("fetchRemotePackagesJson")) <= 1
    /\ Cardinality(LogOps("uploadJson")) <= 1
    /\ WroteManifest =>
           Content(manifest) =
               (Content(toolchains) \ ItemTriples(toDelete)) \cup ItemTriples(addedItems)

\* C10 amended: the manifest is fetched at the start and once more right
\* before the rewrite; the rewrite happens at most once, as the last call of
\* the run, and is the second read (empty when that fetch failed) with the
\* successful additions inserted and the planned deletions removed.
C10_RewriteFromSecondRead ==
    /\ log # <<>> => log[1].op = "fetchRemotePackagesJson"
    /\ Cardinality(LogOps("fetchRemotePackagesJson")) <= 2
    /\ Cardinality(LogOps("uploadJson")) <= 1
    /\ \A i \in LogOps("uploadJson") :
           /\ i = Len(log)
           /\ i > 2
           /\ log[i - 1].op = "fetchRemotePackagesJson"
           /\ log[i].ok =>
                  Content(manifest) =
                      (Content(log[i - 1].data) \ ItemTriples(toDelete))
                          \cup ItemTriples(addedItems)

C10_Witness ==
    /\ WroteManifest
    /\ toDelete # <<>>
    /\ addedItems # <<>>
    /\ log[Len(log) - 1].data # toolchains

\* the ids a run manages: the ids of the desired keys
DesiredIds == Range(ExpectedIds(buildExpectedState(config, latestVersions)))

\* C11: every step of a sync run leaves each manifest entry of an unmanaged
\* id present and identical (id, version, systems) in the published
\* manifest, and deletes no blob of such an entry.
C11_UnmanagedUntouched ==
    [][\A i \in DOMAIN manifest :
           manifest[i].id \notin DesiredIds =>
               /\ \E j \in DOMAIN manifest' : manifest'[j] = manifest[i]
               /\ \A p \in PathsOf(<<manifest[i]>>) : p \in blobs => p \in blobs']_vars

\* a pass of the loop over toAdd, and the resolution it computed
AddPass == pc = "adding" /\ addIdx' = addIdx + 1
PassResolution == resolveItem(packageIndex', toAdd[addIdx])
Outcomes == Len(addedItems) + Len(skippedItems) + failedCount
SkippedTriples ==
    {<<skippedItems[i].id, skippedItems[i].version, skippedItems[i].platform>> :
        i \in {j \in DOMAIN skippedItems : skippedItems[j].missingTools # <<>>}}

\* C12: a planned addition whose resolution has missing tools and no hard
\* error is recorded as skipped with these tools, not as failed; nothing is
\* downloaded or uploaded for it; and the manifest the run writes holds no
\* system for its (id, version, platform).
C12_PartialNeverPublished ==
    /\ [][(AddPass /\ PassResolution.missingTools # <<>> /\ PassResolution.errors = <<>>)
            => /\ skippedItems' = Append(skippedItems,
                                         WithMissing(toAdd[addIdx], PassResolution.missingTools))
               /\ UNCHANGED <<failedCount, addedItems, addedSystems, blobs, log>>]_vars
    /\ [](WroteManifest => SkippedTriples \cap Content(manifest) = {})

\* C13: a failure of one planned addition does not end the batch: during the
\* loop every processed item has one outcome, after the loop every item of
\* toAdd has one, and the summary of the run adds up to the planned additions.
C13_EveryItemOneOutcome ==
    /\ pc = "adding" => Outcomes = addIdx - 1 /\ addIdx <= Len(toAdd)
    /\ pc \in {"deleting", "updating", "report", "done", "threw"} => Outcomes = Len(toAdd)
    /\ NoDup(addedItems) /\ NoDup(skippedItems)
    /\ ItemTriples(addedItems) \cap ItemTriples(skippedItems) = {}
    /\ ItemTriples(addedItems) \cup ItemTriples(skippedItems) \subseteq ItemTriples(toAdd)
    /\ (pc = "done" /\ ~options.dryRun) =>
           result.added + result.skipped + result.failed = Len(toAdd)

C13_Witness ==
    /\ pc = "done"
    /\ ~options.dryRun
    /\ Len(toAdd) = 2
    /\ failedCount = 1
    /\ addedItems = <<toAdd[2]>>
    /\ result.failed = 1 /\ result.added = 1

\* the tool dependencies of the core an item asks for, in the merged index
\* of the pass
PassDeps ==
    LET core == parseCore(findPkgConfig(toAdd[addIdx].id)[1].core)
        p    == findPlatform(packageIndex', core.packager, core.architecture,
                             toAdd[addIdx].version)
    IN  IF p = None THEN <<>> ELSE p[1].toolsDependencies
Undefined(deps, index) ==
    {i \in DOMAIN deps :
        \A pkg \in Range(index.packages) :
            toLowerCase(pkg.name) = toLowerCase(deps[i].packager) =>
                \A t \in Range(pkg.tools) :
                    ~(t.name = deps[i].name /\ t.version = deps[i].version)}

\* C16: resolve reports one hard error for each tool dependency that has no
\* Tool definition, not only the first; and an item whose resolution has a
\* hard error is recorded as failed, also when it has missing tools.
C16_HardErrorsAllAndFirst ==
    [][AddPass =>
          /\ PassResolution.platform # None =>
                 /\ Len(PassResolution.errors) =
                        Cardinality(Undefined(PassDeps, packageIndex'))
                 /\ \A i \in Undefined(PassDeps, packageIndex') :
                        \E e \in Range(PassResolution.errors) :
                            ToolKey(e) = ToolKey(PassDeps[i])
          /\ PassResolution.errors # <<>> =>
                 /\ failedCount' = failedCount + 1
                 /\ UNCHANGED <<skippedItems, addedItems, addedSystems, blobs, log>>]_vars

C16_Witness ==
    /\ pc \in {"adding", "deleting", "updating", "report"}
    /\ addIdx = 2
    /\ failedCount = 1
    /\ skippedItems = <<>>
    /\ resolveItem(packageIndex, toAdd[1]).missingTools # <<>>
    /\ resolveItem(packageIndex, toAdd[1]).errors # <<>>

-----------------------------------------------------------------------------
(* calculate-diff.js, index-parser.js, packager.js: the upstream catalog *)

Digits == <<"0", "1", "2", "3", "4", "5", "6", "7", "8", "9">>
IsDigit(c) == \E d \in DOMAIN Digits : Digits[d] = c
DigitValue(c) == (CHOOSE d \in DOMAIN Digits : Digits[d] = c) - 1

\* the number written by the digits at the start of s, and whether there is one
RECURSIVE leadingDigits(_, _)
leadingDigits(s, acc) ==
    IF s # <<>> /\ IsDigit(Head(s))
    THEN leadingDigits(Tail(s), 10 * acc + DigitValue(Head(s)))
    ELSE acc

\* parseInt(n, 10) || 0: an optional sign and the leading digits; NaN, when
\* there is no digit, and 0 are both 0
parseIntOrZero(n) ==
    IF n # <<>> /\ Head(n) \in {"-", "+"}
    THEN IF Head(n) = "-" THEN 0 - leadingDigits(Tail(n), 0) ELSE leadingDigits(Tail(n), 0)
    ELSE leadingDigits(n, 0)

\* a.split('.').map(n => parseInt(n, 10) || 0)
versionParts(v) == [i \in DOMAIN split(v, ".") |-> parseIntOrZero(split(v, ".")[i])]

\* partsA[i] ?? 0
PartAt(parts, i) == IF i \in DOMAIN parts THEN parts[i] ELSE 0

Max(a, b) == IF a >= b THEN a ELSE b

\* compareVersions: -1, 0 or 1 by the first component that differs
compareVersions(a, b) ==
    LET partsA == versionParts(a)
        partsB == versionParts(b)
        n      == Max(Len(partsA), Len(partsB))
        differ == {i \in 1..n : PartAt(partsA, i) # PartAt(partsB, i)}
    IN  IF differ = {} THEN 0
        ELSE LET i == CHOOSE k \in differ : \A j \in differ : k <= j
             IN  IF PartAt(partsA, i) < PartAt(partsB, i) THEN -1 ELSE 1

\* versions.sort((a, b) => compareVersions(b, a)): stable, descending
RECURSIVE sortVersions(_)
sortVersions(versions) ==
    IF versions = <<>> THEN <<>>
    ELSE LET n    == Len(versions)
             x    == versions[n]
             done == sortVersions(SubSeq(versions, 1, n - 1))
             k    == Cardinality({i \in DOMAIN done : compareVersions(x, done[i]) <= 0})
         IN  SubSeq(done, 1, k) \o <<x>> \o SubSeq(done, k + 1, Len(done))

\* getAvailableVersions: the versions of the platforms of that architecture
\* in the first package of that packager, latest first
getAvailableVersions(index, packager, architecture) ==
    LET pkg == findPackage(index, packager)
    IN  IF pkg = None THEN <<>>
        ELSE LET ps == SelectSeq(pkg[1].platforms,
                           LAMBDA p : toLowerCase(p.architecture) = toLowerCase(architecture))
             IN  sortVersions([i \in DOMAIN ps |-> ps[i].version])

\* fetchPackageIndex(url): the parsed index, or a throw (unreachable, HTTP
\* error, invalid JSON)
fetchPackageIndex(up, url) == up[url]

\* fetchAllPackageIndexes: the packages of every index that could be fetched,
\* one after the other
RECURSIVE fetchedPackages(_, _)
fetchedPackages(urls, up) ==
    IF urls = <<>> THEN <<>>
    ELSE LET index == fetchPackageIndex(up, Head(urls))
         IN  (IF index = None THEN <<>> ELSE index[1].packages)
                 \o fetchedPackages(Tail(urls), up)
fetchAllPackageIndexes(urls, up) == [packages |-> fetchedPackages(urls, up)]

\* mergePackageIndexes, inner loop: a package whose name is already a key of
\* packageMap gives its platforms and tools to that entry
RECURSIVE mergePackages(_, _)
mergePackages(packageMap, packages) ==
    IF packages = <<>> THEN packageMap
    ELSE LET pkg  == Head(packages)
             next ==
                 IF MapHas(packageMap, pkg.name)
                 THEN LET existing == MapGet(packageMap, pkg.name)
                      IN  MapSet(packageMap, pkg.name,
                                 [existing EXCEPT !.platforms = @ \o pkg.platforms,
                                                  !.tools = @ \o pkg.tools])
                 ELSE MapSet(packageMap, pkg.name, pkg)
         IN  mergePackages(next, Tail(packages))

\* a source that cannot be fetched ends the loop
RECURSIVE mergeSources_StopAtFailure(_, _, _)
mergeSources_StopAtFailure(packageMap, urls, up) ==
    IF urls = <<>> \/ fetchPackageIndex(up, Head(urls)) = None THEN packageMap
    ELSE mergeSources_StopAtFailure(
             mergePackages(packageMap, fetchPackageIndex(up, Head(urls))[1].packages),
             Tail(urls), up)

\* mergePackageIndexes, outer loop: a source that cannot be fetched is left out
RECURSIVE mergeSources(_, _, _)
mergeSources(packageMap, urls, up) ==
    IF urls = <<>> THEN packageMap
    ELSE LET index == fetchPackageIndex(up, Head(urls))
         IN  mergeSources(IF index = None THEN packageMap
                          ELSE mergePackages(packageMap, index[1].packages),
                          Tail(urls), up)

\* mergePackageIndexes: Array.from(packageMap.values())
mergePackageIndexes(urls, up) ==
    LET packageMap == mergeSources(<<>>, urls, up)
    IN  [packages |-> [i \in DOMAIN packageMap |-> packageMap[i].val]]

\* fetchLatestVersions, loop over config.arduino.packages
RECURSIVE latestOf(_, _, _)
latestOf(latest, packages, index) ==
    IF packages = <<>> THEN latest
    ELSE LET pkg      == Head(packages)
             core     == parseCore(pkg.core)
             versions == getAvailableVersions(index, core.packager, core.architecture)
         IN  latestOf(IF versions # <<>> THEN MapSet(latest, pkg.id, versions[1])
                      ELSE latest,
                      Tail(packages), index)

\* config.arduino.board_manager?.additional_urls ?? []
configuredUrls(urls) == IF urls = UNDEFINED THEN <<>> ELSE urls

PRIMARY_INDEX_URL == "https://downloads.arduino.cc/packages/package_index.json"
ESP32_INDEX_URL == "https://espressif.github.io/arduino-esp32/package_esp32_index.json"
OTHER_INDEX_URL == "https://example.com/package_other_index.json"

\* packageArduinoToolchain: the main index is put first when it is not there
withPrimary(urls) ==
    IF SetHas(urls, PRIMARY_INDEX_URL) THEN urls ELSE <<PRIMARY_INDEX_URL>> \o urls

-----------------------------------------------------------------------------
(* the catalogs of a run on their own: the URLs and the indexes are drawn *)

V1_9_0  == <<"1", ".", "9", ".", "0">>
V1_10_0 == <<"1", ".", "1", "0", ".", "0">>
V2_0    == <<"2", ".", "0">>

IndexUrls == {PRIMARY_INDEX_URL, ESP32_INDEX_URL, OTHER_INDEX_URL}

\* additional_urls: absent, or a list of different URLs
UrlLists ==
    {UNDEFINED, <<>>}
        \cup {<<a>> : a \in IndexUrls}
        \cup {u \in IndexUrls \X IndexUrls : u[1] # u[2]}
        \cup {u \in IndexUrls \X IndexUrls \X IndexUrls :
                 u[1] # u[2] /\ u[1] # u[3] /\ u[2] # u[3]}

\* what a URL can serve: nothing that parses, or an index of one package
ServedIndexes ==
    {IndexOf(arduino, <<IndexPlatform(avr, V1_9_0, <<>>)>>,
             <<IndexTool(avr_gcc, <<x86_64_mingw32>>)>>),
     IndexOf(arduino, <<IndexPlatform(avr, V1_10_0, <<>>), IndexPlatform(AVRCap, V1_9_0, <<>>)>>,
             <<IndexTool(avrdude, <<x86_64_mingw32>>)>>),
     IndexOf(arduino, <<IndexPlatform(avr, V2_0, <<>>), IndexPlatform(esp32, V2, <<>>)>>, <<>>),
     IndexOf(ArduinoCap, <<IndexPlatform(avr, V2, <<>>)>>,
             <<IndexTool(avrdude, <<x86_64_apple_darwin>>)>>),
     IndexOf(esp32, <<IndexPlatform(esp32, V2, <<>>)>>, <<>>)}
Served == {None} \cup {Some(index) : index \in ServedIndexes}

InitMerge ==
    /\ NoRun
    /\ pc = "config"
    /\ packageIndex = EmptyIndex
    /\ NoCall
    /\ NoDownload
    /\ additional_urls \in UrlLists
    /\ upstream \in [IndexUrls -> Served]
    /\ discoveryUrls = <<>>
    /\ mergedPackages = EmptyIndex
    /\ indexUrls = <<>>

mergeFrame ==
    <<manifest, blobs, blobs0, options, toolchains, expected, current, toAdd,
      toDelete, addIdx, delIdx, addedSystems, addedItems, skippedItems,
      failedCount, deletedItems, result, log, runs>>

\* fetchLatestVersions(config)
FetchLatestVersionsStep ==
    /\ pc = "config"
    /\ pc' = "discovered"
    /\ discoveryUrls' = configuredUrls(additional_urls)
    /\ mergedPackages' = fetchAllPackageIndexes(discoveryUrls', upstream)
    /\ latestVersions' = latestOf(<<>>, config.packages, mergedPackages')
    /\ UNCHANGED <<mergeFrame, packageIndex, additional_urls, upstream, indexUrls>>
    /\ UNCHANGED <<callVars, downloadVars>>

\* the dry run of sync: the index it checks the availability against
DryRunMergeStep ==
    /\ pc = "discovered"
    /\ pc' = "merged"
    /\ indexUrls' = configuredUrls(additional_urls)
    /\ packageIndex' = mergePackageIndexes(indexUrls', upstream)
    /\ UNCHANGED <<mergeFrame, latestVersions, additional_urls, upstream,
                   discoveryUrls, mergedPackages>>
    /\ UNCHANGED <<callVars, downloadVars>>

\* packageArduinoToolchain: the index of the packaging of one item; unshift
\* changes the array of the config when there is one
PackagingMergeStep ==
    /\ pc = "discovered"
    /\ pc' = "merged"
    /\ indexUrls' = withPrimary(configuredUrls(additional_urls))
    /\ additional_urls' = IF additional_urls = UNDEFINED THEN UNDEFINED ELSE indexUrls'
    /\ packageIndex' = mergePackageIndexes(indexUrls', upstream)
    /\ UNCHANGED <<mergeFrame, latestVersions, upstream, discoveryUrls, mergedPackages>>
    /\ UNCHANGED <<callVars, downloadVars>>

NextMerge ==
    \/ FetchLatestVersionsStep
    \/ DryRunMergeStep
    \/ PackagingMergeStep

SpecMerge == InitMerge /\ [][NextMerge]_vars

\* the sources of a URL list that can be fetched, and the packages they
\* declare, in source order
ReachableUrls(urls) == SelectSeq(urls, LAMBDA u : upstream[u] # None)
DeclaredPackages(urls) ==
    LET rs == ReachableUrls(urls)
    IN  Concat([i \in DOMAIN rs |-> upstream[rs[i]][1].packages])
Named(packages, name) == SelectSeq(packages, LAMBDA p : p.name = name)
SameLowerName(packages, name) ==
    SelectSeq(packages, LAMBDA p : toLowerCase(p.name) = toLowerCase(name))
PlatformsOf(packages) == Concat([i \in DOMAIN packages |-> packages[i].platforms])
ToolsOf(packages) == Concat([i \in DOMAIN packages |-> packages[i].tools])
DiscoveryDone == pc \in {"discovered", "merged"}
MergeDone == pc = "merged"

\* a catalog has one entry per declared name, holding the platforms and the
\* tools of all the declarations of that name, in source order
OneEntryPerName(catalog, urls) ==
    \A d \in Range(DeclaredPackages(urls)) :
        LET entries == Named(catalog.packages, d.name)
            decls   == Named(DeclaredPackages(urls), d.name)
        IN  /\ Len(entries) = 1
            /\ entries[1].platforms = PlatformsOf(decls)
            /\ entries[1].tools = ToolsOf(decls)

\* C22: for two index sources that declare the same packager name, the
\* merged catalog has exactly one entry of that name, whose platforms and
\* tools are the concatenation of the sources' lists in source order; this
\* of the catalog of fetchAllPackageIndexes and of mergePackageIndexes.
C22_OneEntryConcatenated ==
    /\ DiscoveryDone => OneEntryPerName(mergedPackages, discoveryUrls)
    /\ MergeDone => OneEntryPerName(packageIndex, indexUrls)

\* C23: a source that cannot be fetched or parsed is left out and the merge
\* returns: the catalog is the one of the reachable sources alone, in their
\* order, for fetchAllPackageIndexes and for mergePackageIndexes.
C23_UnreachableSkipped ==
    /\ pc = "discovered" => ENABLED DryRunMergeStep /\ ENABLED PackagingMergeStep
    /\ DiscoveryDone =>
           /\ mergedPackages.packages = DeclaredPackages(discoveryUrls)
           /\ mergedPackages =
                  fetchAllPackageIndexes(ReachableUrls(discoveryUrls), upstream)
    /\ MergeDone =>
           /\ packageIndex = mergePackageIndexes(ReachableUrls(indexUrls), upstream)
           /\ [i \in DOMAIN packageIndex.packages |-> packageIndex.packages[i].name]
                  = NewSet([i \in DOMAIN DeclaredPackages(indexUrls) |->
                               DeclaredPackages(indexUrls)[i].name])
           /\ Len(PlatformsOf(packageIndex.packages))
                  = Len(PlatformsOf(DeclaredPackages(indexUrls)))
           /\ Range(PlatformsOf(packageIndex.packages))
                  = Range(PlatformsOf(DeclaredPackages(indexUrls)))

C23_Witness ==
    /\ MergeDone
    /\ Len(indexUrls) = 3
    /\ upstream[indexUrls[1]] # None
    /\ upstream[indexUrls[2]] = None
    /\ upstream[indexUrls[3]] # None
    /\ Len(packageIndex.packages) = 2
    /\ DiscoveryDone
    /\ Len(mergedPackages.packages) = 2

\* C24: the merged catalog has one record per packager name, names compared
\* without regard to case: packages whose names differ in case only are one
\* record, and every platform and tool of either is found by a lookup on
\* that packager.
C24_OneRecordAnyCase ==
    MergeDone =>
        \A d \in Range(DeclaredPackages(indexUrls)) :
            /\ Len(SameLowerName(packageIndex.packages, d.name)) = 1
            /\ \A p \in Range(d.platforms) :
                   findPlatform(packageIndex, d.name, p.architecture, p.version) # None
            /\ \A t \in Range(d.tools) :
                   findTool(packageIndex, d.name, t.name, t.version) # None

\* version a is not later than version b: the integer components, missing
\* ones being zero, are equal or the first that differs is smaller in a
VersionLeq(a, b) ==
    LET pa == versionParts(a)
        pb == versionParts(b)
        n  == Max(Len(pa), Len(pb))
    IN  \/ \A i \in 1..n : PartAt(pa, i) = PartAt(pb, i)
        \/ \E i \in 1..n :
               /\ PartAt(pa, i) < PartAt(pb, i)
               /\ \A j \in 1..(i - 1) : PartAt(pa, j) = PartAt(pb, j)

\* the versions upstream has of a core, in all the reachable sources
UpstreamVersions(core) ==
    {p.version : p \in
        {q \in Range(PlatformsOf(SameLowerName(DeclaredPackages(discoveryUrls),
                                               parseCore(core).packager))) :
            toLowerCase(q.architecture) = toLowerCase(parseCore(core).architecture)}}

\* C25: the desired version of a configured package is the latest version
\* upstream has: the greatest, by integer components with missing components
\* zero, among the platforms of its packager:architecture in all the
\* reachable index sources.
C25_LatestOfAllSources ==
    DiscoveryDone =>
        \A i \in DOMAIN config.packages :
            LET pkg == config.packages[i]
                all == UpstreamVersions(pkg.core)
            IN  IF all = {} THEN ~MapHas(latestVersions, pkg.id)
                ELSE /\ MapHas(latestVersions, pkg.id)
                     /\ MapGet(latestVersions, pkg.id) \in all
                     /\ \A v \in all : VersionLeq(v, MapGet(latestVersions, pkg.id))

\* C26: the primary index URL is among the sources of every catalog a run
\* builds, for the latest versions, for the dry run and for the packaging of
\* an item, also when the configuration omits it; the discovery and the
\* packaging use the same sources.
C26_PrimaryAlwaysIncluded ==
    /\ DiscoveryDone => SetHas(discoveryUrls, PRIMARY_INDEX_URL)
    /\ MergeDone =>
           /\ SetHas(indexUrls, PRIMARY_INDEX_URL)
           /\ Range(indexUrls) = Range(discoveryUrls)

-----------------------------------------------------------------------------
(* merge-packages.js *)

\* mergeToolchains, first loop: the base toolchains by `${id}@${version}`
RECURSIVE baseToolchainMap(_, _)
baseToolchainMap(toolchainMap, list) ==
    IF list = <<>> THEN toolchainMap
    ELSE baseToolchainMap(MapSet(toolchainMap, StateKey(Head(list).id, Head(list).version),
                                 Head(list)),
                          Tail(list))

\* mutant: a system of a known host is left as it is
RECURSIVE mergeSystems_KeepFirst(_, _)
mergeSystems_KeepFirst(existing, systems) ==
    IF systems = <<>> THEN existing
    ELSE LET system == Head(systems)
             next   ==
                 IF \E i \in DOMAIN existing : existing[i].host = system.host
                 THEN existing
                 ELSE Append(existing, system)
         IN  mergeSystems_KeepFirst(next, Tail(systems))

\* mergeToolchains, loop over the systems of a toolchain of an artifact: a
\* system of a new host is pushed; for a known host Object.assign copies the
\* properties of the new system over those of the first system of that host
RECURSIVE mergeSystems(_, _)
mergeSystems(existing, systems) ==
    IF systems = <<>> THEN existing
    ELSE LET system == Head(systems)
             next   ==
                 IF \E i \in DOMAIN existing : existing[i].host = system.host
                 THEN [i \in DOMAIN existing |->
                          IF i = (CHOOSE k \in DOMAIN existing :
                                      /\ existing[k].host = system.host
                                      /\ \A j \in 1..(k - 1) : existing[j].host # system.host)
                          THEN system @@ existing[i] ELSE existing[i]]
                 ELSE Append(existing, system)
         IN  mergeSystems(next, Tail(systems))

\* mergeToolchains, loop over the toolchains of one artifact
RECURSIVE mergeArtifactToolchains(_, _)
mergeArtifactToolchains(toolchainMap, list) ==
    IF list = <<>> THEN toolchainMap
    ELSE LET toolchain == Head(list)
             key       == StateKey(toolchain.id, toolchain.version)
             existing  == IF MapHas(toolchainMap, key) THEN MapGet(toolchainMap, key)
                          ELSE [id |-> toolchain.id, version |-> toolchain.version,
                                systems |-> <<>>]
         IN  mergeArtifactToolchains(
                 MapSet(toolchainMap, key,
                        [existing EXCEPT !.systems = mergeSystems(@, toolchain.systems)]),
                 Tail(list))

\* mergeToolchains, loop over the artifacts
RECURSIVE mergeArtifacts(_, _)
mergeArtifacts(toolchainMap, arts) ==
    IF arts = <<>> THEN toolchainMap
    ELSE mergeArtifacts(mergeArtifactToolchains(toolchainMap, Head(arts)), Tail(arts))

\* mergeToolchains(basePackagesJson, artifacts)
mergeToolchains(base, arts) ==
    LET toolchainMap == mergeArtifacts(baseToolchainMap(<<>>, base), arts)
        merged       == sortToolchains([i \in DOMAIN toolchainMap |-> toolchainMap[i].val])
    IN  [i \in DOMAIN merged |-> [merged[i] EXCEPT !.systems = sortSystems(@)]]

-----------------------------------------------------------------------------
(* the writers of packages.json on their own: the toolchains are drawn *)

WriteHosts == <<win32_x64, darwin_x64>>
WriteItem(id, version, platform) == [id |-> id, version |-> version, platform |-> platform]

WriteEntry(id, version, hosts) ==
    [id |-> id, version |-> version,
     systems |-> [i \in DOMAIN hosts |-> SystemInfo(WriteItem(id, version, hosts[i]))]]

\* a published packages.json: what a writer left
WriteBases ==
    {applyUpdate(<<WriteEntry(IdX, V1_9_0, h1), WriteEntry(IdX, V1_10_0, h2),
                   WriteEntry(IdY, V2, h3)>>, <<>>, <<>>, <<>>) :
        h1 \in {<<>>, <<win32_x64>>, <<win32_x64, darwin_x64>>},
        h2 \in {<<>>, <<win32_x64>>},
        h3 \in {<<>>, <<darwin_x64>>}}

\* the additions of a run, all packaged
WriteAdds ==
    {<<>>,
     <<WriteItem(IdX, V1_10_0, win32_x64)>>,
     <<WriteItem(IdX, V1_10_0, win32_x64), WriteItem(IdX, V1_10_0, darwin_x64)>>,
     <<WriteItem(IdX, V2, darwin_x64), WriteItem(IdX, V2, win32_x64)>>,
     <<WriteItem(IdY, V1_10_0, darwin_x64)>>}

RECURSIVE SystemsOfItems(_)
SystemsOfItems(items) ==
    IF items = <<>> THEN <<>>
    ELSE MapSet(SystemsOfItems(SubSeq(items, 1, Len(items) - 1)),
                ItemKey(items[Len(items)]), SystemInfo(items[Len(items)]))

WriteDeletes ==
    {<<>>, <<WriteItem(IdX, V1_9_0, win32_x64)>>,
     <<WriteItem(IdX, V1_9_0, win32_x64), WriteItem(IdX, V1_9_0, darwin_x64)>>}

\* an entry whose system was packaged again, with the size of the archive
WriteRebuilt(id, version, host, size) ==
    [id |-> id, version |-> version,
     systems |-> <<SystemInfo(WriteItem(id, version, host)) @@ [size |-> size]>>]

\* the artifacts of the platform jobs: each holds the toolchains it packaged
WriteArtifacts ==
    {<<>>,
     <<<<WriteEntry(IdX, V1_10_0, <<darwin_x64>>)>>>>,
     <<<<WriteEntry(IdX, V1_10_0, <<darwin_x64>>)>>, <<WriteEntry(IdX, V1_10_0, <<win32_x64>>)>>>>,
     <<<<WriteEntry(IdX, V2, <<win32_x64>>), WriteEntry(IdX, V1_9_0, <<win32_x64>>)>>>>,
     <<<<WriteRebuilt(IdX, V1_10_0, win32_x64, "2048")>>,
       <<WriteEntry(IdX, V1_10_0, <<win32_x64>>)>>>>,
     <<<<WriteEntry(IdX, V1_10_0, <<win32_x64>>)>>,
       <<WriteRebuilt(IdX, V1_10_0, win32_x64, "2048")>>>>,
     <<<<WriteRebuilt(IdX, V1_10_0, win32_x64, "1024")>>,
       <<WriteRebuilt(IdX, V1_10_0, win32_x64, "2048")>>>>}

InitWrite ==
    /\ manifest = <<>>
    /\ blobs = {}
    /\ blobs0 = {}
    /\ latestVersions = <<>>
    /\ runs = 0
    /\ options = [dryRun |-> FALSE, platform |-> NULL]
    /\ toolchains \in WriteBases
    /\ expected = <<>>
    /\ current = <<>>
    /\ toAdd \in WriteAdds
    /\ toDelete \in WriteDeletes
    /\ addIdx = 1
    /\ delIdx = 1
    /\ addedSystems = SystemsOfItems(toAdd)
    /\ addedItems = <<>>
    /\ skippedItems = <<>>
    /\ failedCount = 0
    /\ deletedItems = <<>>
    /\ result = NoResult
    /\ log = <<>>
    /\ pc = "write"
    /\ packageIndex = EmptyIndex
    /\ NoCall
    /\ NoCatalog
    /\ downloads = <<>>
    /\ dlIdx = 1
    /\ downloadDir = {}
    /\ extracted = {}
    /\ artifacts \in WriteArtifacts

writeFrame ==
    <<blobs, latestVersions, blobs0, options, toolchains, expected, current, toAdd,
      toDelete, addIdx, delIdx, addedSystems, addedItems, skippedItems, failedCount,
      deletedItems, result, log, runs, packageIndex, downloads, dlIdx, downloadDir,
      extracted, artifacts>>

\* updatePackagesJsonFile(toAdd, addedSystems, toDelete) on the toolchains it
\* fetched
UpdatePackagesJsonFileStep ==
    /\ pc = "write"
    /\ pc' = "written"
    /\ manifest' = updatePackagesJsonFile(toolchains, toAdd, addedSystems, toDelete)
    /\ UNCHANGED <<writeFrame, callVars, catalogVars>>

\* merge-packages: mergeToolchains(basePackagesJson, artifacts), written to
\* packages.json
MergeToolchainsStep ==
    /\ pc = "write"
    /\ pc' = "merged toolchains"
    /\ manifest' = mergeToolchains(toolchains, artifacts)
    /\ UNCHANGED <<writeFrame, callVars, catalogVars>>

NextWrite ==
    \/ UpdatePackagesJsonFileStep
    \/ MergeToolchainsStep

SpecWrite == InitWrite /\ [][NextWrite]_vars

\* a toolchains array is in the order the claim gives
IdAscending(list) ==
    \A i, j \in DOMAIN list : i < j => localeCompare(list[i].id, list[j].id) <= 0
VersionDescending(list) ==
    \A i, j \in DOMAIN list :
        (i < j /\ list[i].id = list[j].id) => VersionLeq(list[j].version, list[i].version)
SystemsAscending(list) ==
    \A t \in DOMAIN list : \A i, j \in DOMAIN list[t].systems :
        i < j => localeCompare(list[t].systems[i].host, list[t].systems[j].host) <= 0
Written == pc \in {"written", "merged toolchains"}

\* C27: every manifest written by sync and by mergeToolchains is sorted by id
\* ascending, then by version descending by integer components (1.10.0 comes
\* before 1.9.0), and the systems of each entry are sorted by host ascending.
C27_ManifestSorted ==
    Written =>
        /\ IdAscending(manifest)
        /\ VersionDescending(manifest)
        /\ SystemsAscending(manifest)

-----------------------------------------------------------------------------
(* packager.js: downloadAndVerify *)

UpperOf ==
    [c \in Range(LowerCase) |-> UpperCase[CHOOSE i \in DOMAIN LowerCase : LowerCase[i] = c]]
toUpperCaseChar(c) == IF c \in DOMAIN UpperOf THEN UpperOf[c] ELSE c
toUpperCase(s) == [i \in DOMAIN s |-> toUpperCaseChar(s[i])]

SHA_256 == <<"S", "H", "A", "-", "2", "5", "6">>

\* verifyChecksum(filePath, expectedChecksum), given the SHA-256 of the file
\* in hex: "true", "false", or "TypeError" when the checksum has no ':' and
\* its second part is undefined
verifyChecksum(actual, expectedChecksum) ==
    IF expectedChecksum \in {UNDEFINED, NULL, <<>>} THEN "true"
    ELSE LET algorithm == At(split(expectedChecksum, ":"), 1)
             digest    == At(split(expectedChecksum, ":"), 2)
         IN  IF toUpperCase(algorithm) # SHA_256 THEN "true"
             ELSE IF digest = UNDEFINED THEN "TypeError"
             ELSE IF toUpperCase(actual) = toUpperCase(digest) THEN "true"
             ELSE "false"

\* downloadAndVerify(url, destPath, expectedChecksum): whether it threw, and
\* whether the file is in the download directory afterwards
downloadAndVerify(archive) ==
    IF archive.served = None THEN [threw |-> TRUE, file |-> FALSE]
    ELSE IF archive.checksum \in {UNDEFINED, NULL, <<>>} THEN [threw |-> FALSE, file |-> TRUE]
    ELSE LET valid == verifyChecksum(archive.served[1], archive.checksum)
         IN  IF valid = "false" THEN [threw |-> TRUE, file |-> FALSE]
             ELSE IF valid = "TypeError" THEN [threw |-> TRUE, file |-> TRUE]
             ELSE [threw |-> FALSE, file |-> TRUE]

-----------------------------------------------------------------------------
(* the downloads of packageToolchainDirect on their own: the archives are drawn *)

\* the platform archive and the tool archives of one packaging
MaxArchives == 2

DigestAB == <<"a", "b", "1", "2">>
DigestCD == <<"c", "d", "3", "4">>

\* the checksum of an archive in the index
IndexChecksums ==
    {UNDEFINED, <<>>,
     SHA_256 \o <<":">> \o DigestAB,
     SHA_256 \o <<":">> \o toUpperCase(DigestAB),
     toLowerCase(SHA_256) \o <<":">> \o DigestAB,
     SHA_256 \o <<":">> \o DigestCD,
     <<"M", "D", "5">> \o <<":">> \o DigestAB,
     SHA_256}

\* what the download of an archive yields: nothing, or a file of that SHA-256
ServedFiles == {None, Some(DigestAB), Some(DigestCD)}

IndexArchives == [checksum : IndexChecksums, served : ServedFiles]

ArchiveLists == UNION {[1..n -> IndexArchives] : n \in 1..MaxArchives}

InitVerify ==
    /\ NoRun
    /\ pc = "downloading"
    /\ packageIndex = EmptyIndex
    /\ NoCall
    /\ NoCatalog
    /\ downloads \in ArchiveLists
    /\ dlIdx = 1
    /\ downloadDir = {}
    /\ extracted = {}
    /\ artifacts = <<>>

\* one archive of packageToolchainDirect: downloadAndVerify, then
\* extractArchive, which succeeds or throws
DownloadAndExtractStep(extractOk) ==
    /\ pc = "downloading"
    /\ LET done == downloadAndVerify(downloads[dlIdx])
       IN  /\ downloadDir' = IF done.file THEN downloadDir \cup {dlIdx} ELSE downloadDir
           /\ extracted' = IF ~done.threw /\ extractOk THEN extracted \cup {dlIdx}
                           ELSE extracted
           /\ pc' = IF done.threw \/ ~extractOk THEN "threw"
                    ELSE IF dlIdx < Len(downloads) THEN "downloading"
                    ELSE "assembled"
           /\ dlIdx' = dlIdx + 1
    /\ UNCHANGED <<runVars, packageIndex, downloads, artifacts>>
    /\ UNCHANGED <<callVars, catalogVars>>

NextVerify == \E extractOk \in BOOLEAN : DownloadAndExtractStep(extractOk)

SpecVerify == InitVerify /\ [][NextVerify]_vars

\* the index gives a SHA-256 digest for the archive
HasSha256(archive) ==
    /\ archive.checksum \notin {UNDEFINED, <<>>}
    /\ Len(split(archive.checksum, ":")) >= 2
    /\ toUpperCase(split(archive.checksum, ":")[1]) = SHA_256
\* the file served has the digest the index gives, letter case aside
DigestMatches(archive) ==
    /\ HasSha256(archive)
    /\ archive.served # None
    /\ toUpperCase(archive.served[1]) = toUpperCase(split(archive.checksum, ":")[2])

\* C28: every downloaded archive is verified before use: an archive is
\* extracted only if the SHA-256 of the downloaded file equals the digest of
\* the index, compared without regard to case; on a mismatch the file is
\* deleted and the packaging of the item throws; no archive whose
\* verification failed or was skipped is extracted.
C28_VerifiedBeforeUse ==
    /\ \A i \in extracted : DigestMatches(downloads[i])
    /\ \A i \in 1..(dlIdx - 1) :
           (HasSha256(downloads[i]) /\ downloads[i].served # None
                /\ ~DigestMatches(downloads[i]))
           => (i \notin downloadDir /\ pc = "threw")

-----------------------------------------------------------------------------
(* Retry of skipped items *)

\* the additions a later run plans from the published manifest, with
\* upstream and configuration as they are
NextToAdd ==
    calculateDiff(buildExpectedState(config, latestVersions),
                  buildCurrentState(manifest)).toAdd

\* the resolution of a pass has the platform, every tool and no error
Complete(res) == res.platform # None /\ res.missingTools = <<>> /\ res.errors = <<>>

\* C29: an item skipped for missing tools is not in the manifest after the
\* run and, its id@version being still desired, it is in toAdd of a later
\* run; in a run in which upstream has a binary of every required tool for
\* its platform the item is not skipped again: it is added, unless its
\* packaging fails.
C29_SkippedRetried ==
    /\ [](pc = "done" =>
            \A t \in SkippedTriples :
                /\ t \notin Content(manifest)
                /\ t \in ItemTriples(NextToAdd))
    /\ [][(AddPass /\ Complete(PassResolution))
            => /\ skippedItems' = skippedItems
               /\ \/ addedItems' = Append(addedItems, toAdd[addIdx])
                  \/ failedCount' = failedCount + 1]_vars

-----------------------------------------------------------------------------
(* Interrupted runs *)

\* the upstream index that has every tool for every platform
CompleteIndex ==
    IndexOf(arduino, SyncPlatforms(<<V2, V1>>),
            <<IndexTool(avr_gcc, SyncHosts), IndexTool(avrdude, SyncHosts)>>)

\* the process is killed during the batch: what it held in memory is lost,
\* the bucket and packages.json stay as they are.  An interrupted run is not
\* counted against MaxRuns, so that a full run can follow it
Crash ==
    /\ pc \in {"adding", "deleting", "updating", "report"}
    /\ pc' = "idle"
    /\ runs' = runs - 1
    /\ options' = [dryRun |-> FALSE, platform |-> NULL]
    /\ toolchains' = <<>>
    /\ expected' = <<>>
    /\ current' = <<>>
    /\ toAdd' = <<>>
    /\ toDelete' = <<>>
    /\ addIdx' = 1
    /\ delIdx' = 1
    /\ addedSystems' = <<>>
    /\ addedItems' = <<>>
    /\ skippedItems' = <<>>
    /\ failedCount' = 0
    /\ deletedItems' = <<>>
    /\ result' = NoResult
    /\ log' = <<>>
    /\ blobs0' = blobs
    /\ packageIndex' = EmptyIndex
    /\ UNCHANGED <<manifest, blobs, latestVersions>>
    /\ UNCHANGED callVars
    /\ UNCHANGED <<catalogVars, downloadVars>>

\* full runs in which every call succeeds and upstream stays as it is, and
\* their interruptions
NextCrash ==
    \/ StartSync(FALSE, NULL, TRUE, EmptyIndex)
    \/ AddItem(CompleteIndex, TRUE)
    \/ DeleteItem(TRUE)
    \/ UpdatePackagesJson(TRUE, TRUE)
    \/ Report
    \/ Exit
    \/ Crash

SpecCrash == Init /\ [][NextCrash]_vars

\* C30: when a run is interrupted at any point of the batch the published
\* manifest references no artifact that the blob store does not hold, and a
\* full run after it, upstream unchanged, ends as an uninterrupted run does:
\* the manifest holds the desired state, nothing is left to plan, and the
\* blob store holds the artifacts of the manifest and no other.
C30_CrashSafe ==
    /\ pc = "idle" => PathsOf(manifest) \subseteq blobs
    /\ pc = "done" =>
           /\ NextToAdd = <<>>
           /\ Replan.toDelete = <<>>
           /\ blobs = PathsOf(manifest)

-----------------------------------------------------------------------------
(* The dry run *)

ChangingOps == {"uploadFile", "deleteFile", "uploadJson"}

\* C31: a dry run makes no change: sync with dryRun set returns at once with
\* added = 0 and deleted = 0, whatever the plan is; it makes no upload, no
\* deletion and no write of the manifest, and the manifest and the bucket
\* are after it what they were before it.
C31_DryRunChangesNothing ==
    /\ [](options.dryRun =>
            /\ pc = "done"
            /\ result.kind = "returned"
            /\ result.added = 0
            /\ result.deleted = 0
            /\ blobs = blobs0
            /\ \A i \in DOMAIN log : log[i].op \notin ChangingOps)
    /\ [][options'.dryRun => manifest' = manifest /\ blobs' = blobs]_vars

C31_Witness ==
    /\ options.dryRun
    /\ pc = "done"
    /\ toAdd # <<>>
    /\ toDelete # <<>>

-----------------------------------------------------------------------------
(* The desired state *)

ConfiguredIds == {config.packages[i].id : i \in DOMAIN config.packages}

\* the keys of the desired state that belong to an id
ExpectedKeysOf(id) == {i \in DOMAIN expected : At(split(expected[i].key, "@"), 1) = id}

Planned == pc \notin {"idle"}

\* C32: the desired state holds at most one key per configured id, the key
\* id@latest, and maps it to the full platform set whatever the upstream
\* index resolves; a configured id with no upstream version has no key, and
\* none of its published entries is planned for deletion.
C32_DesiredState ==
    Planned =>
        /\ \A i \in DOMAIN expected :
               At(split(expected[i].key, "@"), 1) \in ConfiguredIds
        /\ \A id \in ConfiguredIds :
               /\ Cardinality(ExpectedKeysOf(id)) <= 1
               /\ MapHas(latestVersions, id) =>
                      \E i \in ExpectedKeysOf(id) :
                          /\ expected[i].key = StateKey(id, MapGet(latestVersions, id))
                          /\ Range(expected[i].val) = Range(OPENBLOCK_PLATFORMS)
                          /\ Len(expected[i].val) = Len(OPENBLOCK_PLATFORMS)
               /\ ~MapHas(latestVersions, id) =>
                      /\ ExpectedKeysOf(id) = {}
                      /\ \A i \in DOMAIN toDelete : toDelete[i].id # id
                      /\ \A i \in DOMAIN toAdd : toAdd[i].id # id

\* a configured id without upstream version whose entries are published
C32_Witness ==
    /\ Planned
    /\ \E id \in ConfiguredIds :
           /\ ~MapHas(latestVersions, id)
           /\ \E i \in DOMAIN toolchains : toolchains[i].id = id

-----------------------------------------------------------------------------
(* Uniqueness in the manifest *)

UniqueEntries(list) ==
    \A i, j \in DOMAIN list :
        list[i].id = list[j].id /\ list[i].version = list[j].version => i = j

UniqueHosts(list) ==
    \A t \in DOMAIN list :
        \A i, j \in DOMAIN list[t].systems :
            list[t].systems[i].host = list[t].systems[j].host => i = j

\* C33: every (id, version) occurs in at most one entry of the published
\* manifest and every host at most once in the systems of an entry, after
\* any sequence of sync runs from a manifest that has both properties, runs
\* with a failed fetch of the manifest or with failed items included.
C33_ManifestUnique ==
    /\ UniqueEntries(manifest)
    /\ UniqueHosts(manifest)

-----------------------------------------------------------------------------
(* Availability across an upgrade *)

RunManagedIds == Range(ExpectedIds(expected))

\* the id has a system in the list
PublishedIn(list, id) ==
    \E i \in DOMAIN list : list[i].id = id /\ list[i].systems # <<>>

\* the id has a system in the manifest whose artifact is in the bucket
Available(id) ==
    \E i \in DOMAIN manifest :
        /\ manifest[i].id = id
        /\ \E j \in DOMAIN manifest[i].systems :
               RemotePath(manifest[i].systems[j].archiveFileName) \in blobs

RunOver == pc \in {"done", "threw"}

\* C34: after a sync run every managed id that had a published system in the
\* manifest the run read still has a published system, of the old or of the
\* new version, whose artifact is in the blob store, also when every
\* addition of the new version failed or was skipped.
C34_AvailableAcrossUpgrade ==
    RunOver =>
        \A id \in RunManagedIds : PublishedIn(toolchains, id) => Available(id)

-----------------------------------------------------------------------------
(* The three result lists of collectDownloadResources *)

\* how many entries of a list are about the tool dependency
CountOf(list, dep) ==
    Cardinality({i \in DOMAIN list :
                    /\ list[i].packager = dep.packager
                    /\ list[i].name = dep.name
                    /\ list[i].version = dep.version})

\* the systems of the definition findTool returns for a resolved tool
DefinitionSystems(t) ==
    findTool(packageIndex, t.packager, t.name, t.version)[1].systems

\* C35: when the Platform is found, every declared tool dependency is in
\* exactly one of the lists tools, missingTools and errors, so the sizes of
\* the three sum to the number of tool dependencies, and the artifact of a
\* resolved tool is that of the first system of the tool's list whose host
\* classifies to the target platform.
C35_EveryDependencyInOneList ==
    (Resolved /\ resources.platform # None) =>
        /\ Len(resources.tools) + Len(resources.missingTools) + Len(resources.errors)
               = Len(RequestedDeps)
        /\ \A d \in DOMAIN RequestedDeps :
               LET dep == RequestedDeps[d]
                   nT  == CountOf(resources.tools, dep)
                   nM  == CountOf(resources.missingTools, dep)
                   nE  == CountOf(resources.errors, dep)
               IN  /\ nT + nM + nE = CountOf(RequestedDeps, dep)
                   /\ nT = 0 \/ nM = 0
                   /\ nT = 0 \/ nE = 0
                   /\ nM = 0 \/ nE = 0
        /\ \A i \in DOMAIN resources.tools :
               LET systems == DefinitionSystems(resources.tools[i])
               IN  \E k \in DOMAIN systems :
                       /\ toOpenBlockPlatform(systems[k].host) = request.targetPlatform
                       /\ \A j \in 1..(k - 1) :
                              toOpenBlockPlatform(systems[j].host) # request.targetPlatform
                       /\ resources.tools[i].url = systems[k].url

\* one tool is resolved from a list with two systems for the target, the
\* other dependency is not resolved
C35_Witness ==
    /\ pc = "resolved"
    /\ resources.platform # None
    /\ Len(RequestedDeps) = 2
    /\ Len(resources.tools) = 1
    /\ Cardinality({k \in DOMAIN DefinitionSystems(resources.tools[1]) :
           toOpenBlockPlatform(DefinitionSystems(resources.tools[1])[k].host)
               = request.targetPlatform}) = 2

-----------------------------------------------------------------------------
(* The --platform option *)

\* the systems a toolchains array publishes for the hosts other than one
OtherSystems(list, platform) ==
    UNION {{<<list[i].id, list[i].version, list[i].systems[j]>> :
               j \in {k \in DOMAIN list[i].systems : list[i].systems[k].host # platform}} :
              i \in DOMAIN list}

PlanPaths == {RemotePath(ArchiveFileName(it)) : it \in Range(toAdd) \cup Range(toDelete)}

\* C36: sync with the option --platform P adds and deletes items of P only:
\* every planned item is of P, every artifact uploaded or deleted is the
\* artifact of a planned item, and a manifest the run writes holds, for every
\* entry, the systems of the other hosts as they were.
C36_OtherPlatformsUntouched ==
    /\ [](options.platform # NULL =>
            /\ \A it \in Range(toAdd) \cup Range(toDelete) : it.platform = options.platform
            /\ (blobs \ blobs0) \cup (blobs0 \ blobs) \subseteq PlanPaths
            /\ \A i \in LogOps("uploadFile") \cup LogOps("deleteFile") :
                   log[i].path \in PlanPaths)
    /\ [][options.platform # NULL =>
             OtherSystems(manifest', options.platform)
                 = OtherSystems(manifest, options.platform)]_vars

-----------------------------------------------------------------------------
(* Deletions in the manifest and in the blob store *)

\* C37: after a run that rewrote the manifest, the system of a planned
\* deletion is absent from the manifest exactly when its artifact was deleted
\* from the blob store: a deletion that failed leaves the system in the
\* manifest and the artifact in the bucket.
C37_DeletionsConsistent ==
    (RunOver /\ WroteManifest) =>
        \A i \in DOMAIN toDelete :
            LET item    == toDelete[i]
                deleted == \E k \in LogOps("deleteFile") :
                               /\ log[k].ok
                               /\ log[k].path = RemotePath(ArchiveFileName(item))
            IN  /\ <<item.id, item.version, item.platform>> \notin Content(manifest)
                       <=> deleted
                /\ ~deleted =>
                       RemotePath(ArchiveFileName(item)) \in blobs

-----------------------------------------------------------------------------
(* The dry run against the real run *)

\* how packageToolchainDirect ends for the item on the index of the dry run
\* when every download goes through
RealOutcome(item) == packageToolchainDirect(resolveItem(packageIndex, item), TRUE).threw

ReportedToAdd(item) == item \in Range(addedItems)
ReportedSkipped(item) ==
    \E i \in DOMAIN skippedItems :
        /\ skippedItems[i].id = item.id
        /\ skippedItems[i].version = item.version
        /\ skippedItems[i].platform = item.platform

\* C38: on the same configuration, catalog and manifest the dry run reports
\* an item as to be added exactly when the real run resolves it with no hard
\* error and no missing tool, and as skipped exactly when the real run skips
\* it for missing tools; an item whose resolution has hard errors is never
\* reported as to be added.
C38_DryRunPredicts ==
    (options.dryRun /\ pc = "done") =>
        \A i \in DOMAIN toAdd :
            LET item == toAdd[i]
                res  == resolveItem(packageIndex, item)
            IN  /\ ReportedToAdd(item) <=>
                       (res.errors = <<>> /\ res.missingTools = <<>>)
                /\ ReportedSkipped(item) <=> RealOutcome(item) = "MissingToolsError"
                /\ res.errors # <<>> => ~ReportedToAdd(item)

-----------------------------------------------------------------------------
(* mergeToolchains over the artifacts of the platform jobs *)

Merged == pc = "merged toolchains"

\* what an artifact contributes: (id, version) and (id, version, host)
EntriesOf(list) == {<<list[i].id, list[i].version>> : i \in DOMAIN list}
ArtifactTriples(k) == Content(artifacts[k])

\* no two artifacts give the same host of the same entry
DistinctHosts ==
    \A k, l \in DOMAIN artifacts : k # l => ArtifactTriples(k) \cap ArtifactTriples(l) = {}

\* the artifacts in another order
Reordered(f) == [i \in DOMAIN artifacts |-> artifacts[f[i]]]

\* the system an artifact gives for a host of an entry
SystemGiven(k, t) ==
    LET list == artifacts[k]
        i    == CHOOSE i \in DOMAIN list : list[i].id = t[1] /\ list[i].version = t[2]
                    /\ \E j \in DOMAIN list[i].systems : list[i].systems[j].host = t[3]
        j    == CHOOSE j \in DOMAIN list[i].systems : list[i].systems[j].host = t[3]
    IN  list[i].systems[j]

\* the system the merged manifest holds for a host of an entry
SystemMerged(t) ==
    LET i == CHOOSE i \in DOMAIN manifest : manifest[i].id = t[1] /\ manifest[i].version = t[2]
        j == CHOOSE j \in DOMAIN manifest[i].systems : manifest[i].systems[j].host = t[3]
    IN  manifest[i].systems[j]

\* C39: mergeToolchains(base, artifacts) does not depend on the order of the
\* artifacts when they give distinct hosts; its result has one entry per
\* (id, version) of the base and of the artifacts and one system per host;
\* merging the same artifacts into the result gives the result again; and
\* when two artifacts give the same host of the same entry the data of the
\* later one is in the result.
C39_MergeToolchains ==
    Merged =>
        /\ DistinctHosts =>
               \A f \in Permutations(DOMAIN artifacts) :
                   mergeToolchains(toolchains, Reordered(f)) = manifest
        /\ EntriesOf(manifest) =
               EntriesOf(toolchains) \cup UNION {EntriesOf(artifacts[k]) : k \in DOMAIN artifacts}
        /\ Content(manifest) =
               Content(toolchains) \cup UNION {ArtifactTriples(k) : k \in DOMAIN artifacts}
        /\ UniqueEntries(manifest)
        /\ UniqueHosts(manifest)
        /\ mergeToolchains(manifest, artifacts) = manifest
        /\ \A k \in DOMAIN artifacts : \A t \in ArtifactTriples(k) :
               (\A l \in DOMAIN artifacts : l > k => t \notin ArtifactTriples(l))
                   => \A field \in DOMAIN SystemGiven(k, t) :
                          /\ field \in DOMAIN SystemMerged(t)
                          /\ SystemMerged(t)[field] = SystemGiven(k, t)[field]

\* two artifacts give the same host of an entry with different data, and the
\* base holds that host as well
C39_Witness ==
    /\ Merged
    /\ Len(artifacts) = 2
    /\ \E t \in ArtifactTriples(1) \cap ArtifactTriples(2) :
           /\ SystemGiven(1, t) # SystemGiven(2, t)
           /\ t \in Content(toolchains)

====
